---- MODULE Spec2Model ----
(***************************************************************************)
(* A model of the graph-query builder of                                   *)
(* aiida/backends/querybuild/querybuilder_base.py (QueryBuilderBase).      *)
(*                                                                         *)
(* Python strings are sequences of tokens: a token is either the dot "."   *)
(* or a dot-free word, so 'data.structure.' is                             *)
(* <<"data", ".", "structure", ".">>.  strip/split/join/format act on the  *)
(* token sequences as the Python methods act on the characters.            *)
(* An optional value (None or a value) is a sequence of length 0 or 1.     *)
(***************************************************************************)
EXTENDS Integers, Sequences, FiniteSets, TLC

VARIABLES
    queryhelp,      \* the argument of the constructor
    phase,          \* "new": before __init__, "ready": constructed, "rejected": __init__ raised
    path,           \* self.path
    label_list,     \* self.label_list
    alias_list,     \* self.alias_list
    alias_dict,     \* self.alias_dict
    filters,        \* self.filters
    projections,    \* self.projections
    cls_to_label_map, \* self.cls_to_label_map
    limit,          \* self.limit
    order_by,       \* self.order_by
    que,            \* self.que: <<>> while the attribute is not set
    label_to_projected_entity_dict, \* self.label_to_projected_entity_dict
    last,           \* the last call on the builder and how it ended
    rt,             \* the result of feeding get_dict() to a second constructor
    nchain,         \* number of chained operations called so far
    is_stored,      \* entity.is_stored of a backend entity
    attributes,     \* entity.dbmodel.attributes
    extras,         \* entity.dbmodel.extras
    ecall,          \* the last call on the entity and how it ended
    dbgroup,        \* the rows of the table of the groups
    nextpk,         \* the primary key the table gives the next row
    gcall,          \* the last call on a collection of groups and how it ended
    got,            \* the group get_or_create last returned for a label, since the last delete
    callers         \* the callers that are inside get_or_create, and where

vars == <<queryhelp, phase, path, label_list, alias_list, alias_dict, filters,
          projections, cls_to_label_map, limit, order_by, que,
          label_to_projected_entity_dict, last, rt, nchain,
          is_stored, attributes, extras, ecall,
          dbgroup, nextpk, gcall, got, callers>>

\* the state of a backend entity
entityvars == <<is_stored, attributes, extras, ecall>>

\* the state of the groups and of the calls on their collection
groupvars == <<dbgroup, nextpk, gcall, got, callers>>

\* the variables of the ORM, which no method of the builder touches
ormvars == <<entityvars, groupvars>>

----------------------------------------------------------------------------
(* Bounds of the model *)

\* the longest path of a queryhelp
MaxPath == 3
\* the longest path of a queryhelp that also has top-level keys
MaxTopPath == 1
\* the longest path of a queryhelp of the life cycle
MaxChainPath == 2
\* the number of counterqueries taken off one query
MaxExcept == 2

\* the number of chained operations called on one builder
MaxChain == 2

----------------------------------------------------------------------------
(* Python string methods on token sequences *)

Dot == "."

RECURSIVE LStrip(_)
LStrip(s) == IF s # <<>> /\ Head(s) = Dot THEN LStrip(Tail(s)) ELSE s

RECURSIVE RStrip(_)
RStrip(s) ==
    IF s # <<>> /\ s[Len(s)] = Dot THEN RStrip(SubSeq(s, 1, Len(s) - 1)) ELSE s

\* s.strip('.')
Strip(s) == RStrip(LStrip(s))

RECURSIVE SplitFrom(_, _, _)
SplitFrom(s, cur, acc) ==
    IF s = <<>> THEN Append(acc, cur)
    ELSE IF Head(s) = Dot THEN SplitFrom(Tail(s), <<>>, Append(acc, cur))
    ELSE SplitFrom(Tail(s), Append(cur, Head(s)), acc)

\* s.split('.')
Split(s) == SplitFrom(s, <<>>, <<>>)

RECURSIVE Join(_)
\* '.'.join(segs)
Join(segs) ==
    IF segs = <<>> THEN <<>>
    ELSE IF Len(segs) = 1 THEN segs[1]
    ELSE segs[1] \o <<Dot>> \o Join(Tail(segs))

\* seq[:-1]
ButLast(seq) == IF seq = <<>> THEN <<>> ELSE SubSeq(seq, 1, Len(seq) - 1)

\* seq[-1]
LastOf(seq) == seq[Len(seq)]

\* the elements of a sequence
Range(seq) == {seq[i] : i \in 1..Len(seq)}

\* d1.update(d2) on dictionaries (functions)
Update(d1, d2) ==
    [k \in (DOMAIN d1) \cup (DOMAIN d2) |-> IF k \in DOMAIN d2 THEN d2[k] ELSE d1[k]]

\* d[k] = v on a dictionary
Put(d, k, v) == [x \in (DOMAIN d) \cup {k} |-> IF x = k THEN v ELSE d[x]]

EmptyDict == <<>>

None == <<>>
Some(x) == <<x>>

----------------------------------------------------------------------------
(* The classes the ORM hands to the builder, with their _plugin_type_string *)

Classes == {"Node", "StructureData", "JobCalculation", "Group"}

IsNodeClass(c) == c \in {"Node", "StructureData", "JobCalculation"}

IsGroupClass(c) == c = "Group"

PluginTypeString(c) ==
    CASE c = "StructureData" ->
            <<"data", ".", "structure", ".", "StructureData", ".">>
      [] c = "JobCalculation" ->
            <<"calculation", ".", "job", ".", "JobCalculation", ".">>
      [] OTHER -> <<>>

----------------------------------------------------------------------------
(* Values a joining keyword can carry: a string, a class or an integer *)

StrVal(s) == [t |-> "str", s |-> s, c |-> "", n |-> 0]
ClsVal(c) == [t |-> "cls", s |-> <<>>, c |-> c, n |-> 0]
IntVal(n) == [t |-> "int", s |-> <<>>, c |-> "", n |-> n]

\* _get_function_map: keyword -> name of the join function ("None" for direction)
FunctionMap ==
    [input_of |-> "_join_inputs",
     output_of |-> "_join_outputs",
     slave_of |-> "_join_slaves",
     master_of |-> "_join_masters",
     ancestor_of |-> "_join_ancestors",
     descendant_of |-> "_join_descendants",
     direction |-> "None",
     group_of |-> "_join_groups",
     member_of |-> "_join_group_members",
     used_by |-> "_join_computer_used"]

----------------------------------------------------------------------------
(* The builder as a record, for the methods written as operators *)

\* the fields as __init__ sets them before it reads the queryhelp
EmptyBuilder ==
    [path |-> <<>>, label_list |-> <<>>, alias_list |-> <<>>,
     alias_dict |-> EmptyDict, filters |-> EmptyDict, projections |-> EmptyDict,
     cls_to_label_map |-> EmptyDict, limit |-> None,
     order_by |-> [islist |-> FALSE, items |-> <<>>],
     que |-> None, label_to_projected_entity_dict |-> EmptyDict]

Self ==
    [path |-> path, label_list |-> label_list, alias_list |-> alias_list,
     alias_dict |-> alias_dict, filters |-> filters, projections |-> projections,
     cls_to_label_map |-> cls_to_label_map, limit |-> limit,
     order_by |-> order_by, que |-> que,
     label_to_projected_entity_dict |-> label_to_projected_entity_dict]

Raise(b, e) == [b |-> b, err |-> e]
Return(b) == [b |-> b, err |-> "ok"]

----------------------------------------------------------------------------
(* _add_to_path *)

IVE == "InputValidationError"

\* the arguments of _add_to_path; filters and project carry how they were passed
Args(cls, type, label, autolabel, fil, project, kwargs) ==
    [cls |-> cls, type |-> type, label |-> label, autolabel |-> autolabel,
     filters |-> fil, project |-> project, kwargs |-> kwargs]

\* truthiness of the cls and type arguments
HasCls(a) == a.cls # None
HasType(a) == a.type # None /\ a.type[1] # <<>>

\* the type of the vertex: the class's discriminator, 'node', 'group', or the type given
TypeOfVertex(a) ==
    IF HasCls(a)
    THEN IF IsNodeClass(a.cls[1])
         THEN IF PluginTypeString(a.cls[1]) # <<>>
              THEN PluginTypeString(a.cls[1])
              ELSE <<"node">>
         ELSE <<"group">>
    ELSE a.type[1]

\* the label after the class branch: a node class without a label gives the last
\* segment of its discriminator
LabelOfClass(a) ==
    IF HasCls(a) /\ IsNodeClass(a.cls[1]) /\ a.label = None
    THEN Some(LastOf(Split(Strip(PluginTypeString(a.cls[1])))))
    ELSE a.label

\* '{}_{}'.format(type, i)
AutoLabel(type, i) == type \o <<"_", ToString(i)>>

\* the while loop: the first i >= 1 whose label is not in label_list
FirstFreeIndex(labels, type) ==
    CHOOSE i \in 1..(Len(labels) + 1) :
        /\ AutoLabel(type, i) \notin Range(labels)
        /\ \A j \in 1..(i - 1) : AutoLabel(type, j) \in Range(labels)

\* the label of the new vertex, or the error for a duplicate of a type used as label
ChooseLabel(labels, type, label, autolabel) ==
    IF label # None /\ label[1] # <<>>
    THEN [err |-> "ok", label |-> label[1]]
    ELSE IF autolabel
    THEN [err |-> "ok", label |-> AutoLabel(type, FirstFreeIndex(labels, type))]
    ELSE IF type \in Range(labels)
    THEN [err |-> IVE, label |-> type]
    ELSE [err |-> "ok", label |-> type]

\* the asserts left out, as a run with asserts stripped (python -O) leaves them out
LabelNotInStripped(d, label) == TRUE

\* assert label not in self.filters / assert label not in self.projections
LabelNotIn(d, label) == label \notin DOMAIN d

\* '.'.join(type.strip('.').split('.')[:-1])
PluginTypeSpec(type) == Join(ButLast(Split(Strip(type))))

\* dict(type = {'like': '{}%'.format(_plugin_type_spec)})
TypeFilter(type) ==
    [k \in {"type"} |-> [op |-> "like", val |-> PluginTypeSpec(type) \o <<"%">>]]

\* v in self.label_list / v in self.cls_to_label_map
InLabelList(b, v) == v.t = "str" /\ v.s \in Range(b.label_list)
InClsMap(b, v) == v.t = "cls" /\ v.c \in DOMAIN b.cls_to_label_map

\* the label a joining value resolves to
ResolveJoinValue(b, v) ==
    IF InLabelList(b, v) THEN StrVal(v.s) ELSE StrVal(b.cls_to_label_map[v.c])

RECURSIVE JoinLoop(_, _, _, _)
\* for k, v in kwargs.items(): ...
JoinLoop(b, kwargs, jk, jv) ==
    IF kwargs = <<>> THEN [err |-> "ok", jk |-> jk, jv |-> jv]
    ELSE LET k == Head(kwargs).k
             v == Head(kwargs).v
         IN IF k \notin DOMAIN FunctionMap THEN [err |-> IVE, jk |-> jk, jv |-> jv]
            ELSE IF jk # None THEN [err |-> IVE, jk |-> jk, jv |-> jv]
            ELSE IF InLabelList(b, v) \/ InClsMap(b, v)
            THEN JoinLoop(b, Tail(kwargs), Some(k), ResolveJoinValue(b, v))
            ELSE [err |-> IVE, jk |-> Some(k), jv |-> jv]

\* the same with direction -1 as the default edge
AliasAndJoinDefaultInputs(b, a, type, label) ==
    LET alias == Len(b.alias_list) + 1
        b1 == [b EXCEPT !.alias_list = Append(@, alias),
                        !.alias_dict = Put(@, label, alias)]
        j == JoinLoop(b1, a.kwargs, None, IntVal(0))
        jk == IF j.jk = None THEN "direction" ELSE j.jk[1]
        jv == IF j.jk = None THEN IntVal(-1) ELSE j.jv
    IN IF j.err # "ok" THEN Raise(b1, j.err)
       ELSE Return([b1 EXCEPT !.path =
                Append(@, [type |-> type, label |-> label, jk |-> jk, jv |-> jv])])

\* lines 537-579: the alias, the joining keyword and the new entry of the path
AliasAndJoin(b, a, type, label) ==
    LET alias == Len(b.alias_list) + 1
        b1 == [b EXCEPT !.alias_list = Append(@, alias),
                        !.alias_dict = Put(@, label, alias)]
        j == JoinLoop(b1, a.kwargs, None, IntVal(0))
        jk == IF j.jk = None THEN "direction" ELSE j.jk[1]
        jv == IF j.jk = None THEN IntVal(1) ELSE j.jv
    IN IF j.err # "ok" THEN Raise(b1, j.err)
       ELSE Return([b1 EXCEPT !.path =
                Append(@, [type |-> type, label |-> label, jk |-> jk, jv |-> jv])])

\* lines 520-534: the filter on the type column
AttachTypeFilter(b, a, type, label) ==
    IF type \notin {<<"computer">>, <<"group">>}
    THEN IF PluginTypeSpec(type) # <<>>
         THEN AliasAndJoin([b EXCEPT !.filters[label] = Update(@, TypeFilter(type))],
                           a, type, label)
         ELSE IF type = <<"node">>
         THEN AliasAndJoin(b, a, type, label)
         ELSE Raise(b, IVE)
    ELSE AliasAndJoin(b, a, type, label)

\* lines 491-510: the label, the class map, the filters and the projections
AddVertex(b, a, type, label) ==
    LET b1 == [b EXCEPT
                 !.label_list = Append(@, label),
                 !.cls_to_label_map =
                     IF HasCls(a) /\ a.cls[1] \notin DOMAIN @
                     THEN Put(@, a.cls[1], label) ELSE @]
        b2 == [b1 EXCEPT !.filters = Put(@, label, EmptyDict)]
        b3 == IF a.filters = None THEN b2
              ELSE [b2 EXCEPT !.filters[label] = Update(@, a.filters[1].map)]
        b4 == [b3 EXCEPT !.projections = Put(@, label,
                 [islist |-> TRUE,
                  items |-> IF a.project = None THEN <<>> ELSE a.project[1].items])]
    IN IF ~LabelNotIn(b1.filters, label) THEN Raise(b1, "AssertionError")
       ELSE IF a.filters # None /\ ~a.filters[1].isdict THEN Raise(b2, IVE)
       ELSE IF ~LabelNotIn(b3.projections, label) THEN Raise(b3, "AssertionError")
       ELSE AttachTypeFilter(b4, a, type, label)

\* _add_to_path(cls, type, label, autolabel, filters, project, **kwargs)
AddToPath(b, a) ==
    IF HasCls(a) /\ HasType(a) THEN Raise(b, IVE)
    ELSE IF ~(HasCls(a) \/ HasType(a)) THEN Raise(b, IVE)
    ELSE IF HasCls(a) /\ ~IsNodeClass(a.cls[1]) /\ ~IsGroupClass(a.cls[1])
    THEN Raise(b, IVE)
    ELSE LET Chosen(type, chosen) ==
                 IF chosen.err # "ok" THEN Raise(b, chosen.err)
                 ELSE AddVertex(b, a, type, chosen.label)
             Typed(type) ==
                 Chosen(type, ChooseLabel(b.label_list, type, LabelOfClass(a), a.autolabel))
         IN Typed(TypeOfVertex(a))

----------------------------------------------------------------------------
(* _add_filter, _add_projection, make_json_compatible, __init__ *)

\* the label a top-level key (a label or a class) stands for
LabelOfKey(b, key) ==
    IF InLabelList(b, key) THEN key.s ELSE b.cls_to_label_map[key.c]

\* _add_filter keeping what the label already has on a key
AddFilterKeepFirst(b, key, filter_spec) ==
    IF InLabelList(b, key) \/ InClsMap(b, key)
    THEN Return([b EXCEPT !.filters[LabelOfKey(b, key)] = Update(filter_spec, @)])
    ELSE Raise(b, IVE)

\* _add_filter(key, filter_spec)
AddFilter(b, key, filter_spec) ==
    IF InLabelList(b, key) \/ InClsMap(b, key)
    THEN Return([b EXCEPT !.filters[LabelOfKey(b, key)] = Update(@, filter_spec)])
    ELSE Raise(b, IVE)

\* _add_projection(key, projection_spec)
AddProjection(b, key, projection_spec) ==
    IF InLabelList(b, key) \/ InClsMap(b, key)
    THEN Return([b EXCEPT !.projections =
                    Put(@, LabelOfKey(b, key), projection_spec)])
    ELSE Raise(b, IVE)

\* replacement_dict.get(inp, inp) on a string
Replacement(s) == IF s = <<"JSONB">> THEN <<"jsonb">> ELSE s

\* make_json_compatible on an order_by value: a dictionary {label: column} or a
\* list of such dictionaries, each with at most one entry
MakeJsonCompatible(ob) ==
    [islist |-> ob.islist,
     items |-> [i \in 1..Len(ob.items) |->
                  [key |-> Replacement(ob.items[i].key),
                   col |-> Replacement(ob.items[i].col)]]]

\* the call __init__ makes for one element of the path (lines 394-401)
PathSpecArgs(spec) ==
    IF spec.kind = "dict" THEN spec.args
    ELSE IF spec.kind = "str"
    THEN Args(None, spec.args.type, None, FALSE, None, None, <<>>)
    ELSE Args(spec.args.cls, None, None, FALSE, None, None, <<>>)

RECURSIVE AddPath(_, _)
\* for path_spec in queryhelp.pop('path'): ...
AddPath(b, specs) ==
    IF specs = <<>> THEN Return(b)
    ELSE LET Added(r) == IF r.err # "ok" THEN r ELSE AddPath(r.b, Tail(specs))
         IN Added(AddToPath(b, PathSpecArgs(Head(specs))))

RECURSIVE AddProjections(_, _)
\* for key, val in queryhelp.pop('project', {}).items(): ...
AddProjections(b, items) ==
    IF items = <<>> THEN Return(b)
    ELSE LET r == AddProjection(b, Head(items).key, Head(items).val)
         IN IF r.err # "ok" THEN r ELSE AddProjections(r.b, Tail(items))

RECURSIVE AddFilters(_, _)
\* for key, val in queryhelp.pop('filters', {}).items(): ...
AddFilters(b, items) ==
    IF items = <<>> THEN Return(b)
    ELSE LET r == AddFilter(b, Head(items).key, Head(items).val)
         IN IF r.err # "ok" THEN r ELSE AddFilters(r.b, Tail(items))

\* QueryBuilderBase.__init__(queryhelp)
Construct(qh) ==
    LET Rest(b4) == IF qh.extra THEN Raise(b4, IVE) ELSE Return(b4)
        Filtered(r3) ==
            IF r3.err # "ok" THEN r3
            ELSE Rest([r3.b EXCEPT !.limit = qh.limit,
                                   !.order_by = MakeJsonCompatible(qh.order_by)])
        Projected(r2) ==
            IF r2.err # "ok" THEN r2 ELSE Filtered(AddFilters(r2.b, qh.filters))
        Pathed(r1) ==
            IF r1.err # "ok" THEN r1 ELSE Projected(AddProjections(r1.b, qh.project))
    IN Pathed(AddPath(EmptyBuilder, qh.path))

----------------------------------------------------------------------------
(* _get_connecting_node, _build_query, get_query, get_dict *)

Star == <<"*">>

\* seq[n] with Python's indices: from 0, negative ones from the end
PyInRange(seq, n) == -Len(seq) <= n /\ n < Len(seq)
PyGet(seq, n) == IF n >= 0 THEN seq[n + 1] ELSE seq[Len(seq) + n + 1]

\* self.labels_location_dict[label]: the index of the label in label_list
LabelsLocation(b, label) ==
    (CHOOSE i \in 1..Len(b.label_list) : b.label_list[i] = label) - 1

\* the vertex to connect with and the join function, for the path entry at index
GetConnectingNode(b, querydict, index) ==
    LET key == querydict.jk
        val == querydict.jv
        isdir == key = "direction"
        func == IF isdir
                THEN IF val.n > 0 THEN "_join_outputs" ELSE "_join_inputs"
                ELSE FunctionMap[key]
        tgt == IF isdir
               THEN IF val.n > 0 THEN IntVal(index - val.n) ELSE IntVal(index + val.n)
               ELSE val
        fail(e) == [err |-> e, alias |-> 0, func |-> func]
    IN IF isdir /\ val.t # "int" THEN fail("TypeError")
       ELSE IF isdir /\ val.n = 0 THEN fail("Exception")
       ELSE IF tgt.t = "int"
       THEN IF PyInRange(b.alias_list, tgt.n)
            THEN [err |-> "ok", alias |-> PyGet(b.alias_list, tgt.n), func |-> func]
            ELSE fail("IndexError")
       ELSE IF tgt.t = "str"
       THEN IF tgt.s \notin Range(b.label_list) THEN fail("Exception")
            ELSE IF PyInRange(b.alias_list, LabelsLocation(b, tgt.s))
            THEN [err |-> "ok",
                  alias |-> PyGet(b.alias_list, LabelsLocation(b, tgt.s)),
                  func |-> func]
            ELSE fail("IndexError")
       ELSE fail("Exception")

\* self.get_session().query(self.alias_list[0])
NewQuery(alias) ==
    [from |-> alias, joins |-> <<>>, filters |-> <<>>,
     entities |-> <<[alias |-> alias, spec |-> Star]>>,
     order |-> <<>>, limit |-> None, excepts |-> <<>>]

\* every join made as _join_inputs makes it
JoinOnAsInputs(func) ==
    [table |-> "link", joined_col |-> "output_id", tojoin_col |-> "input_id"]

\* the ON clauses of a join function: the edge table, its column compared with
\* joined_entity.id and its column compared with entity_to_join.id; without an
\* edge table, the column of joined_entity compared with entity_to_join.id
JoinOn(func) ==
    CASE func = "_join_outputs" ->
            [table |-> "link", joined_col |-> "input_id", tojoin_col |-> "output_id"]
      [] func = "_join_inputs" ->
            [table |-> "link", joined_col |-> "output_id", tojoin_col |-> "input_id"]
      [] func = "_join_descendants" ->
            [table |-> "path", joined_col |-> "parent_id", tojoin_col |-> "child_id"]
      [] func = "_join_ancestors" ->
            [table |-> "path", joined_col |-> "child_id", tojoin_col |-> "parent_id"]
      [] func = "_join_group_members" ->
            [table |-> "groups_nodes", joined_col |-> "dbgroup_id", tojoin_col |-> "dbnode_id"]
      [] func = "_join_groups" ->
            [table |-> "groups_nodes", joined_col |-> "dbnode_id", tojoin_col |-> "dbgroup_id"]
      [] func = "_join_computer_used" ->
            [table |-> "", joined_col |-> "dbcomputer_id", tojoin_col |-> "id"]

\* connection_func(toconnectwith, alias): the join added to the query
JoinOf(func, toconnectwith, alias) ==
    [func |-> func, joined |-> toconnectwith, tojoin |-> alias, on |-> JoinOn(func)]

RECURSIVE BuildJoins(_, _, _)
\* the loop over zip(range(len(alias_list)), alias_list, path), from index on
BuildJoins(b, q, index) ==
    IF index >= Len(b.alias_list) \/ index >= Len(b.path) THEN [q |-> q, err |-> "ok"]
    ELSE IF index = 0 THEN BuildJoins(b, q, 1)
    ELSE LET Connected(c) ==
                 IF c.err # "ok" THEN [q |-> q, err |-> c.err]
                 ELSE IF c.func \in {"_join_slaves", "_join_masters"}
                 THEN [q |-> q, err |-> "NotImplementedError"]
                 ELSE BuildJoins(b,
                         [q EXCEPT !.joins =
                             Append(@, JoinOf(c.func, c.alias, b.alias_list[index + 1]))],
                         index + 1)
         IN Connected(GetConnectingNode(b, b.path[index + 1], index))

\* the columns of the tables behind the aliases
Columns == {"id", "type", "ctime", "mtime", "dbcomputer_id"}

\* analyze_filter_spec(alias, filter_spec) finds a column for every key: a key
\* is a column path, and get_column looks its head up on the alias with getattr
Analyzable(spec) == DOMAIN spec \subseteq Columns

RECURSIVE BuildFilters(_, _, _)
\* the loop over self.filters.items(), taken in the order of label_list
BuildFilters(b, q, labels) ==
    IF labels = <<>> THEN [q |-> q, err |-> "ok"]
    ELSE IF Head(labels) \notin DOMAIN b.filters THEN BuildFilters(b, q, Tail(labels))
    ELSE IF Head(labels) \notin DOMAIN b.alias_dict THEN [q |-> q, err |-> IVE]
    ELSE IF ~Analyzable(b.filters[Head(labels)]) THEN [q |-> q, err |-> "AttributeError"]
    ELSE BuildFilters(b,
            [q EXCEPT !.filters =
                Append(@, [alias |-> b.alias_dict[Head(labels)],
                           spec |-> b.filters[Head(labels)]])],
            Tail(labels))

\* truthiness of a projection value (a list or a string)
Truthy(p) == p.items # <<>> /\ (p.islist \/ p.items[1] # <<>>)

\* the default left out: no projection is added
DefaultProjectionNone(b) == b.projections

\* if not any(self.projections.values()): project the last label
DefaultProjection(b) ==
    IF \E l \in DOMAIN b.projections : Truthy(b.projections[l])
    THEN b.projections
    ELSE Put(b.projections, LastOf(b.label_list), [islist |-> FALSE, items |-> <<Star>>])

\* the specs to project for a label: self.projections.get(label, [])
ItemsToProject(b, label) ==
    IF label \in DOMAIN b.projections /\ Truthy(b.projections[label])
    THEN b.projections[label].items
    ELSE <<>>

\* add_projectable_entity(alias, projectable_spec), of the backend: the entity
\* the query gets for the spec
ProjectableEntity(alias, spec) == [alias |-> alias, spec |-> spec]

RECURSIVE BuildProjections(_, _, _, _)
\* the loop over self.path: st holds the query, the position index and the
\* label -> spec -> position dictionary
BuildProjections(b, st, vertices, items) ==
    IF items # <<>>
    THEN LET label == Head(vertices).label
             pos == st.position_index + 1
         IN BuildProjections(b,
               [q |-> [st.q EXCEPT !.entities =
                         Append(@, ProjectableEntity(b.alias_dict[label], Head(items)))],
                position_index |-> pos,
                dict |-> [st.dict EXCEPT ![label] = Put(@, Head(items), pos)]],
               vertices, Tail(items))
    ELSE IF vertices = <<>> \/ Tail(vertices) = <<>> THEN st
    ELSE LET next == Tail(vertices)
             its == ItemsToProject(b, Head(next).label)
         IN BuildProjections(b,
               IF its = <<>> THEN st
               ELSE [st EXCEPT !.dict = Put(@, Head(next).label, EmptyDict)],
               next, its)

\* the projection part with the first entity left in the query
ProjectAllKeepFirst(b, q) ==
    BuildProjections(b,
        [q |-> q, position_index |-> -1, dict |-> EmptyDict],
        <<[label |-> <<>>]>> \o b.path, <<>>)

\* the projection part of _build_query, from a query with _entities cleared
ProjectAll(b, q) ==
    BuildProjections(b,
        [q |-> [q EXCEPT !.entities = <<>>], position_index |-> -1, dict |-> EmptyDict],
        <<[label |-> <<>>]>> \o b.path, <<>>)

\* the ORDER part left out: the query gets no ORDER BY
BuildOrderNone(b, q, items) == [q |-> q, err |-> "ok"]

RECURSIVE BuildOrder(_, _, _)
\* the loop over self.order_by
BuildOrder(b, q, items) ==
    IF items = <<>> THEN [q |-> q, err |-> "ok"]
    ELSE IF Head(items).key \notin DOMAIN b.alias_dict THEN [q |-> q, err |-> "KeyError"]
    ELSE BuildOrder(b,
            [q EXCEPT !.order =
                Append(@, [alias |-> b.alias_dict[Head(items).key],
                           col |-> Head(items).col])],
            Tail(items))

\* if self.limit: self.que = self.que.limit(self.limit)
ApplyLimit(q, lim) == IF lim # None /\ lim[1] # 0 THEN [q EXCEPT !.limit = lim] ELSE q

\* the label check that opens _build_query
LabelsUnique(b) == Len(b.label_list) = Cardinality(Range(b.label_list))

\* the writes of _build_query to self.projections and self.order_by
ProjectionsAfterBuild(b) == DefaultProjection(b)
OrderByAfterBuild(b) ==
    IF b.order_by.items # <<>> THEN [b.order_by EXCEPT !.islist = TRUE] ELSE b.order_by

\* what _build_query stores in self.que when it raises or returns
SetQue(b, q) == [b EXCEPT !.que = Some(q)]

\* _build_query()
BuildQuery(b) ==
    IF ~LabelsUnique(b) THEN Raise(b, IVE)
    ELSE IF b.alias_list = <<>> THEN Raise(b, "IndexError")
    ELSE
    LET Ordered(b2, o) ==
            IF o.err # "ok" THEN Raise(SetQue(b2, o.q), o.err)
            ELSE Return(SetQue(b2, ApplyLimit(o.q, b2.limit)))
        Order(b2, q) == Ordered(b2, BuildOrder(b2, q, b2.order_by.items))
        Projected(b1, p) ==
            Order([b1 EXCEPT !.label_to_projected_entity_dict = p.dict,
                             !.order_by = OrderByAfterBuild(b)], p.q)
        Project(b1, q) == Projected(b1, ProjectAll(b1, q))
        Filtered(f) ==
            IF f.err # "ok" THEN Raise(SetQue(b, f.q), f.err)
            ELSE Project([b EXCEPT !.projections = ProjectionsAfterBuild(b)], f.q)
        Joined(j) ==
            IF j.err # "ok" THEN Raise(SetQue(b, j.q), j.err)
            ELSE Filtered(BuildFilters(b, j.q, b.label_list))
    IN Joined(BuildJoins(b, NewQuery(b.alias_list[1]), 0))

\* get_query() building the query at every call
GetQueryAlwaysBuild(b) ==
    LET r == BuildQuery(b) IN [b |-> r.b, err |-> r.err, built |-> TRUE]

\* get_query(): the cached self.que when the attribute is set, else
\* _build_query(); built tells whether _build_query ran
GetQuery(b) ==
    IF b.que # None
    THEN [b |-> b, err |-> "ok", built |-> FALSE]
    ELSE LET r == BuildQuery(b) IN [b |-> r.b, err |-> r.err, built |-> TRUE]

\* get_dict()
GetDict(b) ==
    [path |-> b.path, filters |-> b.filters, project |-> b.projections,
     limit |-> b.limit, order_by |-> b.order_by]

----------------------------------------------------------------------------
(* The chained operations inputs, outputs, children, parents *)

\* self._add_to_path(cls = cls, <keyword> = join_to, autolabel = True, **kwargs)
\* with join_to = self.label_list[-1] and cls = kwargs.pop('cls', self.AiidaNode)
Chained(b, keyword, kw) ==
    AddToPath(b,
        Args(IF kw.cls = None THEN Some("Node") ELSE kw.cls,
             None, kw.label, TRUE, kw.filters, None,
             <<[k |-> keyword, v |-> StrVal(LastOf(b.label_list))]>> \o kw.kwargs))

----------------------------------------------------------------------------
(* The inputs of the model *)

TStructure == <<"data", ".", "structure", ".">>
TData == <<"data", ".">>
LabelA == <<"a">>
LabelB == <<"b">>
LabelC == <<"c">>
ColId == <<"id">>

\* a filter on one column: {column: {op: value}}
Filter(col, op, val) == [k \in {col} |-> [op |-> op, val |-> val]]

AsDict(map) == Some([isdict |-> TRUE, map |-> map])
NotADict == Some([isdict |-> FALSE, map |-> EmptyDict])
AsList(items) == Some([islist |-> TRUE, items |-> items])
Kw(k, v) == [k |-> k, v |-> v]

DictSpec(args) == [kind |-> "dict", args |-> args]
StrSpec(type) ==
    [kind |-> "str", args |-> Args(None, Some(type), None, FALSE, None, None, <<>>)]
ClsSpec(cls) ==
    [kind |-> "cls", args |-> Args(Some(cls), None, None, FALSE, None, None, <<>>)]

\* the vertices a path is made of
VertexSpecs ==
    { StrSpec(TStructure),
      StrSpec(TData),
      ClsSpec("JobCalculation"),
      DictSpec(Args(Some("StructureData"), None, Some(LabelA), FALSE, None, None, <<>>)),
      DictSpec(Args(Some("StructureData"), None, Some(LabelB), FALSE, None, None, <<>>)),
      DictSpec(Args(Some("StructureData"), None, None, FALSE,
                    AsDict(Filter("type", "==", <<"x">>)), None, <<>>)),
      DictSpec(Args(Some("JobCalculation"), None, Some(LabelC), FALSE, None, None,
                    <<Kw("input_of", ClsVal("StructureData"))>>)),
      DictSpec(Args(Some("JobCalculation"), None, Some(LabelC), FALSE, None, None,
                    <<Kw("direction", IntVal(-2))>>)),
      DictSpec(Args(None, Some(TStructure), Some(LabelB), FALSE, None, None,
                    <<Kw("input_of", StrVal(LabelB))>>)),
      DictSpec(Args(None, Some(<<"node">>), Some(<<"n">>), FALSE, None, None,
                    <<Kw("slave_of", StrVal(LabelA))>>)) }

\* {'cls': StructureData, 'label': label}
Labelled(label) ==
    DictSpec(Args(Some("StructureData"), None, Some(label), FALSE, None, None, <<>>))

\* {'cls': JobCalculation, 'label': 'c', **kwargs}
EdgeVertex(kwargs) ==
    DictSpec(Args(Some("JobCalculation"), None, Some(LabelC), FALSE, None, None, kwargs))

\* the paths on the edge keywords: every keyword of the function map with a
\* label as target, integer targets, and two keywords on one vertex
EdgePaths ==
    {<<Labelled(LabelA), EdgeVertex(<<Kw(k, StrVal(LabelA))>>)>> :
        k \in DOMAIN FunctionMap \ {"direction"}}
    \cup {<<Labelled(LabelA), EdgeVertex(<<Kw("input_of", IntVal(j))>>)>> : j \in 0..1}
    \cup {<<Labelled(LabelA), Labelled(LabelB),
            EdgeVertex(<<Kw("output_of", IntVal(j))>>)>> : j \in 0..2}
    \cup {<<Labelled(LabelA),
            EdgeVertex(<<Kw("input_of", StrVal(LabelA)), Kw("output_of", StrVal(LabelA))>>)>>}

\* all sequences over S of length 1..n
RECURSIVE SeqsUpTo(_, _)
SeqsUpTo(S, n) ==
    IF n = 0 THEN {}
    ELSE LET shorter == SeqsUpTo(S, n - 1)
         IN {<<x>> : x \in S} \cup shorter
              \cup {Append(p, x) : p \in {q \in shorter : Len(q) = n - 1}, x \in S}

NoOrderBy == [islist |-> FALSE, items |-> <<>>]

QueryHelp(p, project, fil, lim, ob, extra) ==
    [path |-> p, project |-> project, filters |-> fil, limit |-> lim,
     order_by |-> ob, extra |-> extra]

\* a queryhelp that is a bare path
PathOnly(p) == QueryHelp(p, <<>>, <<>>, None, NoOrderBy, FALSE)

TopProjects == {<<>>, <<[key |-> StrVal(LabelA), val |-> [islist |-> TRUE, items |-> <<ColId>>]]>>}
TopFilters ==
    {<<>>,
     <<[key |-> ClsVal("StructureData"), val |-> Filter("type", "==", <<"x">>)]>>,
     <<[key |-> StrVal(LabelA), val |-> Filter("id", "==", <<"x">>)]>>}
TopLimits == {None, Some(1)}
TopOrderBys == {NoOrderBy, [islist |-> FALSE, items |-> <<[key |-> LabelA, col |-> ColId]>>]}

\* the queryhelps on projections: two vertices, each with or without a
\* projection of its own, and a top-level project map in either key order
ProjectedVertex(cls, label, project) ==
    DictSpec(Args(Some(cls), None, Some(label), FALSE, None, project, <<>>))

VertexProjects ==
    {None, AsList(<<ColId, Star>>), Some([islist |-> FALSE, items |-> <<Star>>])}

ProjectOfA == [key |-> StrVal(LabelA), val |-> [islist |-> TRUE, items |-> <<Star, ColId>>]]
ProjectOfC == [key |-> ClsVal("JobCalculation"), val |-> [islist |-> TRUE, items |-> <<ColId>>]]

ProjectMaps == {<<>>, <<ProjectOfA>>, <<ProjectOfA, ProjectOfC>>, <<ProjectOfC, ProjectOfA>>}

ProjectQueryHelps ==
    {QueryHelp(<<ProjectedVertex("StructureData", LabelA, pa),
                 ProjectedVertex("JobCalculation", LabelC, pc)>>,
               pr, <<>>, None, NoOrderBy, FALSE) :
        pa \in VertexProjects, pc \in VertexProjects, pr \in ProjectMaps}

\* the queryhelps on filters: one vertex with or without filters of its own
\* and with or without top-level filters for its label, some keys in both
Cond(op, val) == [op |-> op, val |-> val]

LocalFilters ==
    {None,
     AsDict([k \in {"id", "ctime"} |-> Cond("==", <<k, "_local">>)]),
     AsDict(Filter("type", "==", <<"x">>))}

LabelFilters ==
    {<<>>,
     <<[key |-> StrVal(LabelA),
        val |-> [k \in {"id", "mtime"} |-> Cond("==", <<k, "_top">>)]]>>,
     <<[key |-> ClsVal("StructureData"), val |-> Filter("ctime", ">", <<"0">>)],
       [key |-> StrVal(LabelA), val |-> Filter("ctime", "<", <<"9">>)]>>}

FilterQueryHelps ==
    {QueryHelp(<<DictSpec(Args(Some("StructureData"), None, Some(LabelA), FALSE,
                               f, None, <<>>))>>,
               <<>>, t, None, NoOrderBy, FALSE) :
        f \in LocalFilters, t \in LabelFilters}

\* the queryhelps of the parser's specification: every path up to MaxPath, and
\* every combination of the top-level keys on the paths of length up to MaxTopPath

QueryHelps ==
    {PathOnly(p) : p \in SeqsUpTo(VertexSpecs, MaxPath) \cup EdgePaths}
    \cup {QueryHelp(p, pr, f, l, o, FALSE) :
            p \in SeqsUpTo(VertexSpecs, MaxTopPath), pr \in TopProjects,
            f \in TopFilters, l \in TopLimits, o \in TopOrderBys}
    \cup ProjectQueryHelps
    \cup FilterQueryHelps


\* the queryhelps of the specification that runs the queries: one or two
\* vertices with or without projections, with or without a filter and a
\* limit; one vertex with a limit and an ordering; one vertex with a negation
\* in its filter
RunPaths ==
    {<<ProjectedVertex("StructureData", LabelA, pa)>> : pa \in VertexProjects}
    \cup {<<ProjectedVertex("StructureData", LabelA, pa),
             ProjectedVertex("JobCalculation", LabelC, pc)>> :
            pa \in VertexProjects, pc \in VertexProjects}
    \cup {<<ClsSpec("JobCalculation")>>}

RunFilters == {<<>>, <<[key |-> StrVal(LabelA), val |-> Filter("id", "==", <<"3">>)]>>}

\* the limits and the orderings of the queries that are run: no limit and
\* the limits 0, 1 and 2; no ORDER BY, the id and the type of the vertex a
RunLimits == {None, Some(0), Some(1), Some(2)}
OrderOn(col) == [islist |-> FALSE, items |-> <<[key |-> LabelA, col |-> col]>>]
RunOrderBys == {NoOrderBy, OrderOn(ColId), OrderOn(<<"type">>)}

\* the two writings of "the id is not 3" on the vertex a
NegationFilters ==
    {<<[key |-> StrVal(LabelA), val |-> Filter("id", "~==", <<"3">>)]>>,
     <<[key |-> StrVal(LabelA), val |-> [k \in {"not"} |-> Filter("id", "==", <<"3">>)]]>>}

RunQueryHelps ==
    {QueryHelp(p, <<>>, f, l, NoOrderBy, FALSE) :
        p \in RunPaths, f \in RunFilters, l \in TopLimits}
    \cup {QueryHelp(<<Labelled(LabelA)>>, <<>>, <<>>, l, o, FALSE) :
            l \in RunLimits, o \in RunOrderBys}
    \cup {QueryHelp(<<Labelled(LabelA)>>, <<>>, f, None, NoOrderBy, FALSE) :
            f \in NegationFilters}

\* the classes given to except_if_input_to and get_calculations_todo
CalcClasses == {"JobCalculation", "Node", "Group"}

\* the queryhelps of the builder's life cycle: the paths up to MaxChainPath over
\* three plain vertices

ChainVertexSpecs ==
    { StrSpec(TStructure),
      ClsSpec("JobCalculation"),
      DictSpec(Args(Some("StructureData"), None, Some(LabelA), FALSE, None, None, <<>>)) }

ChainQueryHelps == {PathOnly(p) : p \in SeqsUpTo(ChainVertexSpecs, MaxChainPath)}

\* the keyword arguments given to a chained operation
ChainKwargs ==
    { [cls |-> None, label |-> None, filters |-> None, kwargs |-> <<>>],
      [cls |-> Some("JobCalculation"), label |-> None, filters |-> None, kwargs |-> <<>>],
      [cls |-> None, label |-> None, filters |-> NotADict, kwargs |-> <<>>],
      [cls |-> None, label |-> None, filters |-> None,
       kwargs |-> <<Kw("used_by", StrVal(LabelA))>>] }

----------------------------------------------------------------------------
(* The database the queries run on *)

Entity(id, type, computer) == [id |-> id, type |-> type, dbcomputer_id |-> computer]

TInline == <<"calculation", ".", "inline", ".", "InlineCalculation", ".">>

\* three structures, two of them inputs of a JobCalculation and the third the
\* input of a calculation of another class that also takes the JobCalculation
\* as input; the closure of the links; a group and a computer
Database ==
    [rows |-> {Entity(1, PluginTypeString("StructureData"), 0),
               Entity(2, PluginTypeString("StructureData"), 0),
               Entity(3, PluginTypeString("StructureData"), 0),
               Entity(4, PluginTypeString("JobCalculation"), 7),
               Entity(5, TInline, 0),
               Entity(6, <<"group">>, 0),
               Entity(7, <<"computer">>, 0)},
     link |-> {[input_id |-> 1, output_id |-> 4], [input_id |-> 2, output_id |-> 4],
               [input_id |-> 3, output_id |-> 5], [input_id |-> 4, output_id |-> 5]},
     path |-> {[parent_id |-> 1, child_id |-> 4], [parent_id |-> 2, child_id |-> 4],
               [parent_id |-> 3, child_id |-> 5], [parent_id |-> 4, child_id |-> 5],
               [parent_id |-> 1, child_id |-> 5], [parent_id |-> 2, child_id |-> 5]},
     groups_nodes |-> {[dbgroup_id |-> 6, dbnode_id |-> 1],
                       [dbgroup_id |-> 6, dbnode_id |-> 4]}]

\* the pairs (row of joined_entity, row of entity_to_join) a join lets through
JoinPairs(on, db) ==
    IF on.table = ""
    THEN {xy \in db.rows \X db.rows : xy[1][on.joined_col] = xy[2][on.tojoin_col]}
    ELSE {xy \in db.rows \X db.rows :
            \E e \in db[on.table] :
                e[on.joined_col] = xy[1].id /\ e[on.tojoin_col] = xy[2].id}

----------------------------------------------------------------------------
(* _make_counterquery, except_if_input_to, get_calculations_todo *)

\* flatten_list on a projection: the list of its specs
FlattenList(p) == p.items

\* issubclass(calc_class, self.Node): the class is the ORM class of the nodes
IsOrmNode(calc_class) == calc_class = "DbNode"

RECURSIVE InputAliases(_, _)
\* the loop over self.path of _make_counterquery: the labels that get an
\* alias in the counterquery, or the assertion that failed
InputAliases(b, vertices) ==
    IF vertices = <<>> THEN [err |-> "ok", labels |-> <<>>]
    ELSE LET label == Head(vertices).label
             rest == InputAliases(b, Tail(vertices))
         IN IF label \notin DOMAIN b.projections THEN rest
            ELSE IF FlattenList(b.projections[label]) # <<Star>>
            THEN [err |-> "AssertionError", labels |-> <<>>]
            ELSE [err |-> rest.err, labels |-> <<label>> \o rest.labels]

\* no filter on the type of the calculation
TypeSpecNone(calc_class) == None

\* the filter on the type of the calculation: calc_class._plugin_type_string
\* for a node class that has one
TypeSpec(calc_class) ==
    IF ~IsOrmNode(calc_class) /\ PluginTypeString(calc_class) # <<>>
    THEN Some(PluginTypeString(calc_class))
    ELSE None

\* _make_counterquery(calc_class): the calculations of the class joined, for
\* every input alias, over a link that has the calculation as output and the
\* alias as input; the entities are the input aliases
MakeCounterquery(b, calc_class) ==
    LET a == InputAliases(b, b.path)
    IN IF a.err # "ok" THEN [err |-> a.err, q |-> None]
       ELSE IF ~IsOrmNode(calc_class) /\ ~IsNodeClass(calc_class)
       THEN [err |-> "Exception", q |-> None]
       ELSE [err |-> "ok",
             q |-> Some([calc |-> calc_class,
                         type_spec |-> TypeSpec(calc_class),
                         inputs |-> [i \in 1..Len(a.labels) |-> b.alias_dict[a.labels[i]]],
                         on |-> [table |-> "link", joined_col |-> "output_id",
                                 tojoin_col |-> "input_id"]])]

\* self.que.except_(counterquery)
Except(q, counterquery) == [q EXCEPT !.excepts = Append(@, counterquery)]

\* except_if_input_to(calc_class)
ExceptIfInputTo(b, calc_class) ==
    LET Excepted(g, c) ==
            IF c.err # "ok" THEN [g EXCEPT !.err = c.err]
            ELSE [g EXCEPT !.b.que = Some(Except(g.b.que[1], c.q[1]))]
        Got(g) ==
            IF g.err # "ok" THEN g
            ELSE Excepted(g, MakeCounterquery(g.b, calc_class))
    IN Got(GetQuery(b))

\* get_calculations_todo(calc_class): the query it runs; self.que is the one
\* _build_query left
GetCalculationsTodo(b, calc_class) ==
    LET Excepted(r, c) ==
            IF c.err # "ok" THEN [b |-> r.b, err |-> c.err, q |-> None]
            ELSE [b |-> r.b, err |-> "ok", q |-> Some(Except(r.b.que[1], c.q[1]))]
        Built(r) ==
            IF r.err # "ok" THEN [b |-> r.b, err |-> r.err, q |-> None]
            ELSE Excepted(r, MakeCounterquery(r.b, calc_class))
    IN Built(BuildQuery(b))

----------------------------------------------------------------------------
(* Running a query on the database *)

\* the table an alias ranges over: get_ormclass(cls, type)
OrmTable(type) ==
    IF type = <<"group">> THEN "group"
    ELSE IF type = <<"computer">> THEN "computer"
    ELSE "node"

\* the rows of the table of a vertex type
RowsOfType(type, db) == {e \in db.rows : OrmTable(e.type) = OrmTable(type)}

\* the vertex type an alias of the builder stands for
TypeOfAlias(b, alias) ==
    LET i == CHOOSE j \in 1..Len(b.path) : b.alias_dict[b.path[j].label] = alias
    IN b.path[i].type

\* the value of a column of a row, as a string
ColumnOf(e, col) ==
    IF col = <<"id">> THEN <<ToString(e.id)>>
    ELSE IF col = <<"type">> THEN e.type
    ELSE <<>>

IsPrefix(p, str) == Len(p) <= Len(str) /\ SubSeq(str, 1, Len(p)) = p

\* the operators preceded by ~, and the operator each of them negates
Negations == [op \in {"~==", "~like"} |-> IF op = "~==" THEN "==" ELSE "like"]

RECURSIVE MatchCond(_, _, _)
\* one filter on a column: == compares, like with a closing % matches a
\* prefix, and ~ before either negates it
MatchCond(e, col, cond) ==
    CASE cond.op = "==" -> ColumnOf(e, col) = cond.val
      [] cond.op = "like" ->
            IF cond.val # <<>> /\ LastOf(cond.val) = "%"
            THEN IsPrefix(ButLast(cond.val), ColumnOf(e, col))
            ELSE ColumnOf(e, col) = cond.val
      [] cond.op \in DOMAIN Negations ->
            ~MatchCond(e, col, [cond EXCEPT !.op = Negations[cond.op]])
      [] OTHER -> FALSE

\* analyze_filter_spec(alias, filter_spec) on a row: every filter holds
MatchSpec(e, spec) == \A col \in DOMAIN spec : MatchCond(e, <<col>>, spec[col])

\* the aliases of the query: the first one and the joined ones
AliasesOf(q) == {q.from} \cup {q.joins[i].tojoin : i \in 1..Len(q.joins)}

\* a choice of a row per alias passes the joins and the filters of the query
Passes(b, q, db, asg) ==
    /\ \A a \in AliasesOf(q) : asg[a] \in RowsOfType(TypeOfAlias(b, a), db)
    /\ \A i \in 1..Len(q.joins) :
          /\ q.joins[i].joined \in AliasesOf(q)
          /\ <<asg[q.joins[i].joined], asg[q.joins[i].tojoin]>>
                 \in JoinPairs(q.joins[i].on, db)
    /\ \A i \in 1..Len(q.filters) :
          q.filters[i].alias \in AliasesOf(q) =>
              MatchSpec(asg[q.filters[i].alias], q.filters[i].spec)

\* the choices of a row per alias the query keeps: one result row each
Passing(b, q, db) == {f \in [AliasesOf(q) -> db.rows] : Passes(b, q, db, f)}

\* the tuple of the projected entities for a choice of a row per alias
TupleOf(q, asg) ==
    [k \in 1..Len(q.entities) |->
        IF q.entities[k].spec = Star
        THEN asg[q.entities[k].alias]
        ELSE ColumnOf(asg[q.entities[k].alias], q.entities[k].spec)]

\* the rows of the query before LIMIT and EXCEPT: one tuple of the projected
\* entities for every choice of a row per alias that passes joins and filters
MainRows(b, q, db) == {TupleOf(q, asg) : asg \in Passing(b, q, db)}

\* the rows of a counterquery: the tuples of inputs of one calculation
CounterRows(b, c, db) ==
    LET n == Len(c.inputs)
        calcs == {e \in RowsOfType(<<"node">>, db) :
                    c.type_spec # None => e.type = c.type_spec[1]}
    IN {xs \in [1..n -> db.rows] :
            /\ \A i \in 1..n : xs[i] \in RowsOfType(TypeOfAlias(b, c.inputs[i]), db)
            /\ \E calc \in calcs :
                  \A i \in 1..n : <<calc, xs[i]>> \in JoinPairs(c.on, db)}

\* the smaller of two numbers
Min(m, n) == IF m <= n THEN m ELSE n

\* the types of the rows in the order of their strings
TypesInOrder ==
    <<TInline, PluginTypeString("JobCalculation"), <<"computer">>,
      PluginTypeString("StructureData"), <<"group">>>>

\* the value ORDER BY compares for a column of a row: the id, or the place of
\* the type among the types
SortKey(e, col) ==
    CASE col = <<"id">> -> e.id
      [] col = <<"type">> -> CHOOSE i \in 1..Len(TypesInOrder) : TypesInOrder[i] = e.type

\* ORDER BY puts x before y: on the first column they differ on, x is smaller
Precedes(order, x, y) ==
    \E i \in 1..Len(order) :
        /\ SortKey(x[order[i].alias], order[i].col) < SortKey(y[order[i].alias], order[i].col)
        /\ \A j \in 1..(i - 1) :
              SortKey(x[order[j].alias], order[j].col) = SortKey(y[order[j].alias], order[j].col)

\* every order of the elements of a set
SeqsOf(S) ==
    {s \in [1..Cardinality(S) -> S] : \A i, j \in 1..Cardinality(S) : i < j => s[i] # s[j]}

\* the orders the database may give the rows of the query in: every row once,
\* and no row after one that ORDER BY puts behind it; rows that ORDER BY does
\* not tell apart come in any order
RowOrders(b, q, db) ==
    {s \in SeqsOf(Passing(b, q, db)) :
        \A i, j \in 1..Len(s) : i < j => ~Precedes(q.order, s[j], s[i])}

\* LIMIT k on an ordered result: its first k rows
FirstRows(s, lim) == IF lim = None THEN s ELSE SubSeq(s, 1, Min(lim[1], Len(s)))

\* the lists of rows the query may return: the first LIMIT rows in an order
\* of the database; with counterqueries, the distinct rows of that list that
\* no counterquery has, in any order
ResultSeqs(b, q, db) ==
    LET C == UNION {CounterRows(b, q.excepts[i], db) : i \in 1..Len(q.excepts)}
        Tuples(s) == [i \in 1..Len(s) |-> TupleOf(q, s[i])]
        Excepted(lists) ==
            IF q.excepts = <<>> THEN lists
            ELSE UNION {SeqsOf(R \ C) : R \in {Range(t) : t \in lists}}
    IN Excepted({Tuples(FirstRows(s, q.limit)) : s \in RowOrders(b, q, db)})

\* the sets of rows the query may return
ResultRows(b, q, db) == {Range(s) : s \in ResultSeqs(b, q, db)}

----------------------------------------------------------------------------
(* The round trip: get_dict() given to the constructor as a queryhelp *)

RECURSIVE SetToSeq(_)
SetToSeq(S) ==
    IF S = {} THEN <<>>
    ELSE LET x == CHOOSE y \in S : TRUE IN <<x>> \o SetToSeq(S \ {x})

\* the items of a dictionary keyed by labels, as the (key, value) pairs __init__ loops over
ItemsOf(d) ==
    LET keys == SetToSeq(DOMAIN d)
    IN [i \in 1..Len(keys) |-> [key |-> StrVal(keys[i]), val |-> d[keys[i]]]]

\* an entry {'type': t, 'label': l, keyword: value} of self.path as a path_spec
EntryAsSpec(e) ==
    DictSpec(Args(None, Some(e.type), Some(e.label), FALSE, None, None,
                  <<Kw(e.jk, e.jv)>>))

\* the dictionary get_dict returns, read as a queryhelp
AsQueryHelp(d) ==
    QueryHelp([i \in 1..Len(d.path) |-> EntryAsSpec(d.path[i])],
              ItemsOf(d.project), ItemsOf(d.filters), d.limit, d.order_by, FALSE)

----------------------------------------------------------------------------
(* The state machine *)

NoRoundTrip == [done |-> FALSE, err |-> "ok", same |-> FALSE]

\* the last call on the builder: the method, the exception it raised or "ok",
\* whether _build_query ran in it, the rows it returned and, for a method
\* that runs the query, the list it returned them in
NoRows == {}
\* the empty dictionary
NoDict == [k \in {} |-> 0]

\* no call yet
NoCall == [op |-> "none", keys |-> <<>>, err |-> "ok", flushed |-> <<>>]

\* no call on a collection of groups yet
NoGroupCall == [op |-> "none", cls |-> "Group", label |-> "", err |-> "ok", created |-> FALSE, group |-> <<>>]

\* the callers of get_or_create
Callers == {1, 2}

\* a caller that is not inside get_or_create and has not called it yet
Outside == [pc |-> "outside", cls |-> "Group", label |-> "", res |-> {},
            err |-> "ok", created |-> FALSE, group |-> <<>>]

Called(op, result, built, returned) ==
    [op |-> op, result |-> result, built |-> built, returned |-> returned,
     fetched |-> <<>>]

InitSelf ==
    /\ phase = "new"
    /\ path = EmptyBuilder.path
    /\ label_list = EmptyBuilder.label_list
    /\ alias_list = EmptyBuilder.alias_list
    /\ alias_dict = EmptyBuilder.alias_dict
    /\ filters = EmptyBuilder.filters
    /\ projections = EmptyBuilder.projections
    /\ cls_to_label_map = EmptyBuilder.cls_to_label_map
    /\ limit = EmptyBuilder.limit
    /\ order_by = EmptyBuilder.order_by
    /\ que = EmptyBuilder.que
    /\ label_to_projected_entity_dict = EmptyBuilder.label_to_projected_entity_dict
    /\ last = Called("none", "ok", FALSE, NoRows)
    /\ rt = NoRoundTrip
    /\ nchain = 0

\* an unstored entity without attributes and extras, on which nothing was called
InitEntity ==
    /\ is_stored = FALSE
    /\ attributes = NoDict
    /\ extras = NoDict
    /\ ecall = NoCall

\* no group, and nobody calling
InitGroup ==
    /\ dbgroup = {}
    /\ nextpk = 1
    /\ gcall = NoGroupCall
    /\ got = NoDict
    /\ callers = [c \in Callers |-> Outside]

InitFields == InitSelf /\ InitEntity /\ InitGroup

Init == queryhelp \in ChainQueryHelps /\ InitFields

InitParse == queryhelp \in QueryHelps /\ InitFields

InitRun == queryhelp \in RunQueryHelps /\ InitFields

\* the fields of the builder after a method ran
SetSelf(b) ==
    /\ path' = b.path
    /\ label_list' = b.label_list
    /\ alias_list' = b.alias_list
    /\ alias_dict' = b.alias_dict
    /\ filters' = b.filters
    /\ projections' = b.projections
    /\ cls_to_label_map' = b.cls_to_label_map
    /\ limit' = b.limit
    /\ order_by' = b.order_by
    /\ que' = b.que
    /\ label_to_projected_entity_dict' = b.label_to_projected_entity_dict

\* QueryBuilder(queryhelp)
Constructor ==
    /\ phase = "new"
    /\ LET Built(r) ==
               /\ SetSelf(r.b)
               /\ phase' = IF r.err = "ok" THEN "ready" ELSE "rejected"
               /\ last' = Called("__init__", r.err, FALSE, NoRows)
       IN Built(Construct(queryhelp))
    /\ UNCHANGED <<queryhelp, rt, nchain>>
    /\ UNCHANGED ormvars

ChainedOp(name, keyword) ==
    /\ phase = "ready"
    /\ nchain < MaxChain
    /\ \E kw \in ChainKwargs :
          LET Added(r) == SetSelf(r.b) /\ last' = Called(name, r.err, FALSE, NoRows)
          IN Added(Chained(Self, keyword, kw))
    /\ nchain' = nchain + 1
    /\ UNCHANGED <<queryhelp, phase, rt>>
    /\ UNCHANGED ormvars

inputs == ChainedOp("inputs", "input_of")
outputs == ChainedOp("outputs", "output_of")
children == ChainedOp("children", "descendant_of")
parents == ChainedOp("parents", "ancestor_of")

get_query ==
    /\ phase = "ready"
    /\ LET Got(r) == SetSelf(r.b) /\ last' = Called("get_query", r.err, r.built, NoRows)
       IN Got(GetQuery(Self))
    /\ UNCHANGED <<queryhelp, phase, rt, nchain>>
    /\ UNCHANGED ormvars

\* QueryBuilder(self.get_dict()), and get_dict() of the builder it gives
RoundTrip ==
    /\ phase = "ready"
    /\ LET Built(r) ==
               rt' = [done |-> TRUE, err |-> r.err,
                      same |-> r.err = "ok" /\ GetDict(r.b) = GetDict(Self)]
       IN Built(Construct(AsQueryHelp(GetDict(Self))))
    /\ UNCHANGED <<queryhelp, phase, path, label_list, alias_list, alias_dict,
                   filters, projections, cls_to_label_map, limit, order_by, que,
                   label_to_projected_entity_dict, last, nchain>>
    /\ UNCHANGED ormvars

\* what a method hands back of the list of rows the query gives: first() the
\* first row or nothing, distinct() a query and no row, all() and yield_per()
\* every row
Returned(name, rows) ==
    CASE name = "first" -> IF rows = <<>> THEN <<>> ELSE <<rows[1]>>
      [] name = "distinct" -> <<>>
      [] OTHER -> rows

\* first(), distinct(), all(), yield_per(count): get_query() and the run
RunQuery(name) ==
    /\ phase = "ready"
    /\ LET Got(r) ==
               /\ SetSelf(r.b)
               /\ IF r.err # "ok"
                  THEN last' = Called(name, r.err, r.built, NoRows)
                  ELSE \E rows \in ResultSeqs(r.b, r.b.que[1], Database) :
                         last' = [Called(name, "ok", r.built, Range(Returned(name, rows)))
                                     EXCEPT !.fetched = Returned(name, rows)]
       IN Got(GetQuery(Self))
    /\ UNCHANGED <<queryhelp, phase, rt, nchain>>
    /\ UNCHANGED ormvars

first == RunQuery("first")
distinct == RunQuery("distinct")
all == RunQuery("all")
yield_per == RunQuery("yield_per")

except_if_input_to ==
    /\ phase = "ready"
    /\ que # None => Len(que[1].excepts) < MaxExcept
    /\ \E calc_class \in CalcClasses :
          LET Excepted(r) ==
                  /\ SetSelf(r.b)
                  /\ last' = Called("except_if_input_to", r.err, r.built, NoRows)
          IN Excepted(ExceptIfInputTo(Self, calc_class))
    /\ UNCHANGED <<queryhelp, phase, rt, nchain>>
    /\ UNCHANGED ormvars

get_calculations_todo ==
    /\ phase = "ready"
    /\ \E calc_class \in CalcClasses :
          LET Got(r) ==
                  /\ SetSelf(r.b)
                  /\ IF r.err # "ok"
                     THEN last' = Called("get_calculations_todo", r.err, TRUE, NoRows)
                     ELSE \E rows \in ResultRows(r.b, r.q[1], Database) :
                             last' = Called("get_calculations_todo", "ok", TRUE, rows)
          IN Got(GetCalculationsTodo(Self, calc_class))
    /\ UNCHANGED <<queryhelp, phase, rt, nchain>>
    /\ UNCHANGED ormvars

Next == Constructor \/ inputs \/ outputs \/ children \/ parents \/ get_query

Spec == Init /\ [][Next]_vars

NextParse == Constructor \/ get_query \/ RoundTrip

SpecParse == InitParse /\ [][NextParse]_vars

NextRun ==
    \/ Constructor
    \/ get_query
    \/ first
    \/ distinct
    \/ all
    \/ yield_per
    \/ except_if_input_to
    \/ get_calculations_todo

SpecRun == InitRun /\ [][NextRun]_vars

----------------------------------------------------------------------------
(* The claims *)

ChainedOpNames == {"inputs", "outputs", "children", "parents"}

\* the handle get_query returned
Handle == que[1]

\* C1: round trip: the builder's own get_dict(), given to the constructor, is
\* accepted and gives a builder whose get_dict() equals the first one.
C1_RoundTrip == rt.done => (rt.err = "ok" /\ rt.same)

\* C2: predecessor-only targets: every join of the emitted query connects a
\* vertex to a vertex of strictly smaller index, never to itself or a later one.
C2_PredecessorOnlyTargets ==
    (phase = "ready" /\ que # None) =>
        \A i \in 1..Len(Handle.joins) :
            Handle.joins[i].joined < Handle.joins[i].tojoin

\* C3: label uniqueness: in every constructed builder, also after every chained
\* operation, the labels of the vertices of the path are pairwise distinct.
C3_LabelUniqueness ==
    phase = "ready" =>
        \A i, j \in 1..Len(path) : i # j => path[i].label # path[j].label

\* C3, its case: a chained operation returned without error on a builder that
\* had refused a duplicate label before (label_list still holds the duplicate)
C3_Witness ==
    /\ phase = "ready"
    /\ last.op \in ChainedOpNames
    /\ last.result = "ok"
    /\ Len(path) >= 3
    /\ Cardinality(Range(label_list)) < Len(label_list)

\* the queryhelps [A, B, {cls: C, direction: -2}]
DirectionForm(qh) ==
    /\ Len(qh.path) = 3
    /\ qh.path[3].kind = "dict"
    /\ qh.path[3].args.kwargs = <<Kw("direction", IntVal(-2))>>

\* the label the constructor gives to the first vertex of the path, alone
FirstVertex(qh) == Construct(PathOnly(SubSeq(qh.path, 1, 1)))

\* the same queryhelp with input_of: A as the edge of the third vertex
InputOfForm(qh) ==
    [qh EXCEPT !.path[3].args.kwargs =
        <<Kw("input_of", StrVal(FirstVertex(qh).b.label_list[1]))>>]

\* C4: direction equivalence: [A, B, {cls: C, direction: -2}] is accepted and
\* the emitted query is the one of [A, B, {cls: C, input_of: A}].
C4_DirectionEquivalence ==
    ( /\ phase # "new"
      /\ DirectionForm(queryhelp)
      /\ FirstVertex(queryhelp).err = "ok"
      /\ Construct(InputOfForm(queryhelp)).err = "ok" ) =>
        /\ phase = "ready"
        /\ que # None =>
              que = BuildQuery(Construct(InputOfForm(queryhelp)).b).b.que

\* C5: discriminator filter injection: for every class-typed vertex with a
\* non-empty discriminator prefix, the filters emitted for its alias hold
\* type LIKE "<prefix>%", whatever filters the user gave for the label.
C5_DiscriminatorFilterInjection ==
    (phase = "ready" /\ last.op = "get_query" /\ last.result = "ok") =>
        \A i \in 1..Len(path) :
            (HasCls(queryhelp.path[i].args) /\ PluginTypeSpec(path[i].type) # <<>>) =>
                \E k \in 1..Len(Handle.filters) :
                    /\ Handle.filters[k].alias = alias_dict[path[i].label]
                    /\ "type" \in DOMAIN Handle.filters[k].spec
                    /\ Handle.filters[k].spec["type"] = TypeFilter(path[i].type)["type"]

\* C6: scenario S1: the bare string 'data.structure.' is accepted, the injected
\* filter is type LIKE 'data.structure.%' and the sole vertex is projected as '*'.
C6_InjectedPattern ==
    (phase # "new" /\ queryhelp = PathOnly(<<StrSpec(TStructure)>>)) =>
        /\ phase = "ready"
        /\ filters[TStructure]["type"] = [op |-> "like", val |-> TStructure \o <<"%">>]
        /\ que # None => Handle.entities = <<[alias |-> alias_dict[TStructure], spec |-> Star]>>

\* C7: a chained operation resets the cached handle, and the handle the next
\* get_query returns has the join of every vertex appended to the path.
C7_ChainedOpsInvalidateCache ==
    /\ (phase = "ready" /\ last.op \in ChainedOpNames /\ last.result = "ok") => que = None
    /\ (phase = "ready" /\ last.op = "get_query" /\ last.result = "ok") =>
            Len(Handle.joins) = Len(path) - 1

\* the handle holds every declared join, filter, projection, ordering and limit
HandleComplete(q) ==
    /\ Len(q.joins) = Len(path) - 1
    /\ \A l \in DOMAIN filters :
          \E k \in 1..Len(q.filters) :
              q.filters[k] = [alias |-> alias_dict[l], spec |-> filters[l]]
    /\ \A i \in 1..Len(path) :
          Truthy(projections[path[i].label]) =>
              \E k \in 1..Len(q.entities) : q.entities[k].alias = alias_dict[path[i].label]
    /\ Len(q.order) = Len(order_by.items)
    /\ limit # None => q.limit = limit

\* C8: no half-built state: when building the query raises, no handle stays
\* cached, and a handle get_query returns lacks nothing that was declared.
C8_NoHalfBuiltHandle ==
    /\ (phase = "ready" /\ last.op = "get_query" /\ last.result # "ok") => que = None
    /\ (phase = "ready" /\ last.op = "get_query" /\ last.result = "ok") =>
            HandleComplete(Handle)

\* C9: the emitter leaves the specification alone: get_dict() is the same
\* before and after get_query built the query.
C9_AstImmutable ==
    [][last'.op = "get_query" => GetDict(Self)' = GetDict(Self)]_vars

\* an edge keyword of the queryhelp names a class that two or more earlier
\* vertices of the path are bound to
AmbiguousClassTarget(qh) ==
    \E i \in 1..Len(qh.path) :
        \E k \in 1..Len(qh.path[i].args.kwargs) :
            LET v == qh.path[i].args.kwargs[k].v
            IN /\ qh.path[i].kind = "dict"
               /\ v.t = "cls"
               /\ Cardinality({j \in 1..(i - 1) : qh.path[j].args.cls = Some(v.c)}) >= 2

\* C10: an edge keyword whose class target is bound to two or more vertices
\* already in the path makes the constructor raise.
C10_AmbiguousClassRaises ==
    (phase # "new" /\ AmbiguousClassTarget(queryhelp)) => phase = "rejected"

\* the last vertex of the queryhelp has one edge keyword, other than direction,
\* with an integer as target, and the path before it is accepted
IntegerTarget(qh) ==
    LET n == Len(qh.path)
        kws == qh.path[n].args.kwargs
    IN /\ n >= 2
       /\ qh.path[n].kind = "dict"
       /\ Len(kws) = 1
       /\ kws[1].k \notin {"direction", "slave_of", "master_of"}
       /\ kws[1].v.t = "int"
       /\ Construct(PathOnly(SubSeq(qh.path, 1, n - 1))).err = "ok"

\* C11: integer targets: a vertex at index i whose edge keyword names the
\* zero-based index j is accepted and joined to the vertex at index j when
\* 0 <= j < i, and rejected when j >= i.
C11_IntegerTargets ==
    (phase # "new" /\ IntegerTarget(queryhelp)) =>
        LET i == Len(queryhelp.path) - 1
            j == queryhelp.path[i + 1].args.kwargs[1].v.n
        IN IF 0 <= j /\ j < i
           THEN /\ phase = "ready"
                /\ (last.op = "get_query" /\ last.result = "ok") =>
                       Handle.joins[i].joined = alias_list[j + 1]
           ELSE phase = "rejected"

\* the label a vertex of the queryhelp receives when nothing precedes it
OwnLabel(spec) ==
    LET a == PathSpecArgs(spec)
    IN ChooseLabel(<<>>, TypeOfVertex(a), LabelOfClass(a), a.autolabel).label

\* two vertices of the queryhelp would receive the same label
DuplicateLabels(qh) ==
    \E i, j \in 1..Len(qh.path) :
        i < j /\ OwnLabel(qh.path[i]) = OwnLabel(qh.path[j])

\* C12: duplicate labels: a path in which two vertices would receive the same
\* label is rejected by the constructor with an InputValidationError.
C12_DuplicateLabelsRejected ==
    (phase # "new" /\ DuplicateLabels(queryhelp)) =>
        (phase = "rejected" /\ last.result = IVE)

\* the queryhelp declares no projection, neither in a vertex nor at top level
NoProjectionDeclared(qh) ==
    /\ qh.project = <<>>
    /\ \A i \in 1..Len(qh.path) : PathSpecArgs(qh.path[i]).project = None

\* the only entity of the query is the last vertex of the path, projected as '*'
ProjectsLastVertex(q) ==
    q.entities = <<ProjectableEntity(alias_dict[path[Len(path)].label], Star)>>

\* C13: default projection: when the queryhelp declares no projection, the query
\* _build_query emits projects the last vertex of the path as '*' and nothing else.
C13_DefaultProjection ==
    [][(/\ que = None
        /\ last'.op = "get_query"
        /\ last'.result = "ok"
        /\ NoProjectionDeclared(queryhelp)) => ProjectsLastVertex(Handle)']_vars

\* C13, its case: a query built for a path of three vertices without projections
C13_Witness ==
    /\ phase = "ready"
    /\ last.op = "get_query"
    /\ last.result = "ok"
    /\ NoProjectionDeclared(queryhelp)
    /\ Len(path) = 3
    /\ Len(Handle.joins) = 2
    /\ ProjectsLastVertex(Handle)

\* the pairs (target row x, row y of the vertex) the join table gives for a kind
PairsOfKind(kind, db) ==
    LET P == db.rows \X db.rows
    IN CASE kind = "output_of" ->
              {xy \in P : [input_id |-> xy[1].id, output_id |-> xy[2].id] \in db.link}
         [] kind = "input_of" ->
              {xy \in P : [output_id |-> xy[1].id, input_id |-> xy[2].id] \in db.link}
         [] kind = "descendant_of" ->
              {xy \in P : [parent_id |-> xy[1].id, child_id |-> xy[2].id] \in db.path}
         [] kind = "ancestor_of" ->
              {xy \in P : [child_id |-> xy[1].id, parent_id |-> xy[2].id] \in db.path}
         [] kind = "member_of" ->
              {xy \in P : [dbgroup_id |-> xy[1].id, dbnode_id |-> xy[2].id] \in db.groups_nodes}
         [] kind = "group_of" ->
              {xy \in P : [dbnode_id |-> xy[1].id, dbgroup_id |-> xy[2].id] \in db.groups_nodes}
         [] kind = "used_by" ->
              {xy \in P : xy[2].id = xy[1].dbcomputer_id}

JoinKinds ==
    {"output_of", "input_of", "descendant_of", "ancestor_of", "member_of",
     "group_of", "used_by"}

\* the query holds the join of every vertex of the path
AllJoined == phase = "ready" /\ que # None /\ Len(Handle.joins) = Len(path) - 1

\* C14: join table: the join emitted for a vertex attached with kind K to a
\* target connects the target's alias to the vertex's alias and pairs their
\* rows exactly as the table says for K.
C14_JoinTable ==
    AllJoined =>
        \A i \in 2..Len(path) :
            path[i].jk \in JoinKinds =>
                /\ Handle.joins[i - 1].joined = alias_dict[path[i].jv.s]
                /\ Handle.joins[i - 1].tojoin = alias_list[i]
                /\ JoinPairs(Handle.joins[i - 1].on, Database)
                       = PairsOfKind(path[i].jk, Database)

\* C14, its case: a vertex joined as group_of another, with a row pair let through
C14_Witness ==
    /\ AllJoined
    /\ Len(path) = 2
    /\ path[2].jk = "group_of"
    /\ JoinPairs(Handle.joins[1].on, Database) # {}

\* a sequence in reverse
Reversed(seq) == [i \in 1..Len(seq) |-> seq[Len(seq) + 1 - i]]

\* the specs the query projects for a label, in the order of its entities
SpecsOf(q, label) ==
    LET OfLabel(e) == e.alias = alias_dict[label]
        es == SelectSeq(q.entities, OfLabel)
    IN [i \in 1..Len(es) |-> es[i].spec]

\* the entities of the query follow the path and, within a label, the
\* projection declared for it; the lookup of get_results_dict names for every
\* (label, spec) the position of that entity
ProjectionOrder(q) ==
    /\ \A p, r \in 1..Len(q.entities) :
          p < r => q.entities[p].alias <= q.entities[r].alias
    /\ \A i \in 1..Len(path) :
          SpecsOf(q, path[i].label) = ItemsToProject(Self, path[i].label)
    /\ \A p \in 1..Len(q.entities) :
          \E i \in 1..Len(path) : q.entities[p].alias = alias_dict[path[i].label]
    /\ \A i \in 1..Len(path) :
          LET label == path[i].label
              items == ItemsToProject(Self, label)
          IN /\ label \in DOMAIN label_to_projected_entity_dict <=> items # <<>>
             /\ items # <<>> =>
                  /\ DOMAIN label_to_projected_entity_dict[label] = Range(items)
                  /\ \A s \in Range(items) :
                        LET pos == label_to_projected_entity_dict[label][s]
                        IN /\ pos \in 0..(Len(q.entities) - 1)
                           /\ q.entities[pos + 1] = ProjectableEntity(alias_dict[label], s)

\* C15: projection order: the projected specs take the positions 0, 1, 2, ...
\* in the order of the path and then of declaration, whatever the key order of
\* the project map, and the lookup (label, spec) -> position of the result
\* adapter names the entity at that position.
C15_ProjectionOrder ==
    [][(que = None /\ last'.op = "get_query" /\ last'.result = "ok") =>
          /\ ProjectionOrder(Handle)'
          /\ LET r == Construct([queryhelp EXCEPT !.project = Reversed(@)])
             IN r.err = "ok" /\ BuildQuery(r.b).b.que = que']_vars

\* C15, its case: both labels projected by a project map that names the second
\* vertex first, three entities in the query
C15_Witness ==
    /\ phase = "ready"
    /\ last.op = "get_query"
    /\ last.result = "ok"
    /\ queryhelp.project = <<ProjectOfC, ProjectOfA>>
    /\ Len(Handle.entities) = 3
    /\ label_to_projected_entity_dict[LabelC][ColId] = 2

\* one filter map laid over another: the keys of both, the upper one's value
\* on a key of both
Overlaid(lower, upper) ==
    [k \in DOMAIN lower \cup DOMAIN upper |->
        IF k \in DOMAIN upper THEN upper[k] ELSE lower[k]]

\* the filters the queryhelp gives in the vertex that got the label
LocalFiltersOf(qh, label) ==
    LET i == CHOOSE j \in 1..Len(path) : path[j].label = label
        f == PathSpecArgs(qh.path[i]).filters
    IN IF f = None THEN EmptyDict ELSE f[1].map

RECURSIVE TopFiltersOf(_, _)
\* the top-level filters of the queryhelp for the label, in the order given
TopFiltersOf(items, label) ==
    IF items = <<>> THEN EmptyDict
    ELSE LET rest == TopFiltersOf(Tail(items), label)
         IN IF LabelOfKey(Self, Head(items).key) = label
            THEN Overlaid(Head(items).val, rest)
            ELSE rest

\* the merge the claim describes, for a label
MergedFilters(label) ==
    Overlaid(LocalFiltersOf(queryhelp, label), TopFiltersOf(queryhelp.filters, label))

\* C19 as stated: filter merge precedence: for every label the final filter map
\* is the vertex-local filters overlaid with the top-level filters of the label.
C19_FilterMergeAsStated ==
    phase = "ready" =>
        \A i \in 1..Len(path) : filters[path[i].label] = MergedFilters(path[i].label)

\* C19: filter merge precedence: for every label and every key other than the
\* discriminator key type, the final filter map holds the vertex-local filters
\* overlaid with the top-level filters of the label: the top-level value on a
\* key of both, the only value on a key of one, and no other key.
C19_FilterMerge ==
    phase = "ready" =>
        \A i \in 1..Len(path) :
            LET final == filters[path[i].label]
                merged == MergedFilters(path[i].label)
            IN /\ DOMAIN final \ {"type"} = DOMAIN merged \ {"type"}
               /\ \A k \in DOMAIN merged \ {"type"} : final[k] = merged[k]

\* C19, its case: a label with a key in both maps and a key in each map alone
C19_Witness ==
    /\ phase = "ready"
    /\ Len(path) = 1
    /\ path[1].label = LabelA
    /\ DOMAIN LocalFiltersOf(queryhelp, LabelA) = {"id", "ctime"}
    /\ DOMAIN TopFiltersOf(queryhelp.filters, LabelA) = {"id", "mtime"}
    /\ filters[LabelA]["id"] = Cond("==", <<"id", "_top">>)
    /\ filters[LabelA]["ctime"] = Cond("==", <<"ctime", "_local">>)

\* the vertex of the queryhelp at position i gives no edge keyword
NoEdgeKeyword(qh, i) == PathSpecArgs(qh.path[i]).kwargs = <<>>

\* C20: default edge: a vertex after the first that gives no edge keyword is
\* stored with direction 1 and joined as output of the vertex before it
\* (link.input_id = previous.id, link.output_id = this.id); a vertex that
\* gives more than one edge keyword makes the constructor raise
\* InputValidationError.
C20_DefaultEdge ==
    /\ AllJoined =>
          \A i \in 2..Len(path) :
              NoEdgeKeyword(queryhelp, i) =>
                  /\ path[i].jk = "direction" /\ path[i].jv = IntVal(1)
                  /\ Handle.joins[i - 1].joined = alias_list[i - 1]
                  /\ Handle.joins[i - 1].tojoin = alias_list[i]
                  /\ JoinPairs(Handle.joins[i - 1].on, Database)
                         = PairsOfKind("output_of", Database)
    /\ (/\ phase # "new"
        /\ \E i \in 1..Len(queryhelp.path) :
              Len(PathSpecArgs(queryhelp.path[i]).kwargs) > 1) =>
          (phase = "rejected" /\ last.result = IVE)

\* C20, its case: a query built for three vertices, the second and the third
\* without an edge keyword
C20_Witness ==
    /\ AllJoined
    /\ Len(path) = 3
    /\ NoEdgeKeyword(queryhelp, 2)
    /\ NoEdgeKeyword(queryhelp, 3)
    /\ Handle.joins[2].func = "_join_outputs"

\* all() returned the rows of a query on a single vertex projected as '*',
\* without LIMIT, that except_if_input_to(JobCalculation) was called on once
SingleVertexExcept ==
    /\ phase = "ready"
    /\ last.op = "all"
    /\ last.result = "ok"
    /\ Len(path) = 1
    /\ que # None
    /\ Handle.entities = <<ProjectableEntity(alias_dict[path[1].label], Star)>>
    /\ Handle.limit = None
    /\ Len(Handle.excepts) = 1
    /\ Handle.excepts[1].calc = "JobCalculation"

\* the rows of the database that are input of a node of the class
InputsOfClass(cls, db) ==
    {e \in db.rows :
        \E c \in db.rows :
            /\ c.type = PluginTypeString(cls)
            /\ [input_id |-> e.id, output_id |-> c.id] \in db.link}

\* C16: pending inputs: on a single vertex projected as '*',
\* except_if_input_to(CalcX) followed by all() returns exactly the rows that
\* match the main query and are not input of any node of class CalcX.
C16_PendingInputs ==
    SingleVertexExcept =>
        last.returned =
            {<<e>> : e \in {x \in Database.rows :
                              /\ <<x>> \in MainRows(Self, Handle, Database)
                              /\ x \notin InputsOfClass("JobCalculation", Database)}}

\* C16, its case: three structures, two of them inputs of a JobCalculation;
\* all() returns the third
C16_Witness ==
    /\ SingleVertexExcept
    /\ Cardinality(MainRows(Self, Handle, Database)) = 3
    /\ last.returned = {<<Entity(3, PluginTypeString("StructureData"), 0)>>}

\* the labels of the path with a projection, and those without
ProjectedLabels == {path[i].label : i \in {j \in 1..Len(path) : Truthy(projections[path[j].label])}}
UnprojectedLabels == {path[i].label : i \in 1..Len(path)} \ ProjectedLabels

\* except_if_input_to was the last call, on a query that had been built
ExceptCalled ==
    /\ phase = "ready"
    /\ last.op = "except_if_input_to"
    /\ que # None
    /\ Len(Handle.joins) = Len(path) - 1

\* C17: the counterquery ranges over the projected labels only: on a path of
\* several vertices where some label has no projection and every projected
\* label is projected as '*', except_if_input_to does not fail on the
\* projections and joins the projected labels, and only them, as inputs; a
\* projected label whose projection is not exactly '*' makes it fail.
C17_CounterqueryOverProjectedLabels ==
    ExceptCalled =>
        /\ (/\ Len(path) >= 2
            /\ UnprojectedLabels # {}
            /\ \A l \in ProjectedLabels : FlattenList(projections[l]) = <<Star>>) =>
              /\ last.result # "AssertionError"
              /\ last.result = "ok" =>
                    Range(Handle.excepts[Len(Handle.excepts)].inputs)
                        = {alias_dict[l] : l \in ProjectedLabels}
        /\ (\E l \in ProjectedLabels : FlattenList(projections[l]) # <<Star>>) =>
              last.result # "ok"

\* the methods that read the query through get_query()
Accessors == {"get_query", "first", "all", "distinct", "yield_per"}

\* C18: memoisation: once a query is cached on the builder, get_query, first,
\* all, distinct and yield_per return that same query and none of them runs
\* _build_query again.
C18_Memoisation ==
    [][(que # None /\ last'.op \in Accessors) =>
          (que' = que /\ ~last'.built /\ last'.result = "ok")]_vars

\* C18, its case: all() gave rows from the query an earlier call had built
C18_Witness ==
    /\ phase = "ready"
    /\ last.op = "all"
    /\ last.result = "ok"
    /\ ~last.built
    /\ que # None
    /\ Len(Handle.joins) = 1
    /\ last.returned # {}

----------------------------------------------------------------------------
\* the builder the queryhelp gives when its limit is left out, after get_query()
Unlimited == GetQuery(Construct([queryhelp EXCEPT !.limit = None]).b).b

\* the lists all() may return on the builder without the limit
UnlimitedLists == ResultSeqs(Unlimited, Unlimited.que[1], Database)

\* all() returned the rows of a query with a limit and without counterquery
AllWithLimit ==
    /\ phase = "ready" /\ last.op = "all" /\ last.result = "ok"
    /\ queryhelp.limit # None
    /\ Handle.excepts = <<>>

\* the order_by of the queryhelp tells any two rows of the query apart
OrderByIsTotal ==
    \A x, y \in Passing(Unlimited, Unlimited.que[1], Database) :
        x # y => \E i \in 1..Len(queryhelp.order_by.items) :
                    LET o == queryhelp.order_by.items[i]
                    IN SortKey(x[alias_dict[o.key]], o.col) # SortKey(y[alias_dict[o.key]], o.col)

\* C21 as stated: limit monotonicity: for every limit k and a fixed order_by,
\* the rows all() returns with limit=k are a prefix of the rows all() returns
\* with no limit.
C21_LimitPrefixAsStated ==
    AllWithLimit => \A t \in UnlimitedLists : IsPrefix(last.fetched, t)

\* C21, amended: for every limit k and an order_by that tells any two rows of
\* the query apart, the rows all() returns with limit=k are a prefix of the
\* rows all() returns with no limit.
C21_LimitPrefix ==
    (AllWithLimit /\ OrderByIsTotal) =>
        \A t \in UnlimitedLists : IsPrefix(last.fetched, t)

\* C21, its case: three rows ordered by id, limit 1: all() returns the row
\* with the smallest id
C21_Witness ==
    /\ AllWithLimit /\ OrderByIsTotal
    /\ queryhelp.limit = Some(1)
    /\ Len(last.fetched) = 1
    /\ \E t \in UnlimitedLists : Len(t) = 3

----------------------------------------------------------------------------
\* C27: limit bound: for every integer limit k >= 0 given in the queryhelp,
\* all() returns at most k rows (in particular limit 0 returns no rows).
C27_LimitBound ==
    (AllWithLimit /\ queryhelp.limit[1] >= 0) =>
        Len(last.fetched) <= queryhelp.limit[1]

----------------------------------------------------------------------------
\* all() ran on the vertex a filtered by one of the two writings of
\* "the id is not 3", with no counterquery taken off
NegationRun ==
    /\ phase = "ready" /\ last.op = "all"
    /\ queryhelp.filters \in NegationFilters
    /\ que # None => Handle.excepts = <<>>

\* C22: negation duality: ~ before an operator negates that predicate, so the
\* filter {c: {"~==": v}} and the filter {"not": {c: {"==": v}}} are both
\* accepted and select the same rows: here the structures whose id is not 3.
C22_NegationDuality ==
    NegationRun =>
        /\ last.result = "ok"
        /\ last.returned =
              {<<e>> : e \in {x \in Database.rows :
                                /\ x.type = PluginTypeString("StructureData")
                                /\ x.id # 3}}

----------------------------------------------------------------------------
ChainOps == {"inputs", "outputs", "children", "parents"}

\* the label autolabel gives a vertex of the type on the labels in use
AutoLabelOn(labels, type) == AutoLabel(type, FirstFreeIndex(labels, type))

\* C23: chained auto-labelling: a chained operation called without a label
\* (every call of the model is) and with valid keyword arguments appends
\* exactly one vertex, whose edge target is the vertex that was last in the
\* path and whose label is "<type>_<n>" with the smallest positive n not yet
\* used; it succeeds for any node class and any number of repetitions.
C23_ChainedAutoLabel ==
    [][(last'.op \in ChainOps /\ nchain' = nchain + 1 /\ last'.result # IVE) =>
          /\ last'.result = "ok"
          /\ Len(path') = Len(path) + 1
          /\ SubSeq(path', 1, Len(path)) = path
          /\ LastOf(path').jv = StrVal(LastOf(label_list))
          /\ LastOf(path').label = AutoLabelOn(label_list, LastOf(path').type)]_vars

----------------------------------------------------------------------------
\* path, label_list and alias_list have the same length, and filters,
\* projections and alias_dict have the labels as keys
Consistent ==
    /\ Len(path) = Len(label_list)
    /\ Len(alias_list) = Len(label_list)
    /\ DOMAIN filters = Range(label_list)
    /\ DOMAIN projections = Range(label_list)
    /\ DOMAIN alias_dict = Range(label_list)

\* C24: builder structural invariant: in every state of a builder, after
\* construction and after any sequence of chained operations, raising ones
\* included, path, label_list and alias_list have the same length and the key
\* sets of filters, projections and alias_dict equal the set of labels; an
\* operation that raises leaves all of them unchanged.
C24_StructuralInvariant ==
    /\ [](phase = "ready" => Consistent)
    /\ [][(phase = "ready" /\ last'.op \in ChainOps /\ last'.result # "ok") =>
            UNCHANGED <<path, label_list, alias_list, alias_dict, filters, projections>>]_vars

----------------------------------------------------------------------------
\* C25: user filters are never silently overwritten by the parser: a filter
\* the user gives for a label in its vertex is still there with the user's
\* value unless a top-level filter of the same label and key replaced it; in
\* particular a vertex-local filter on the key type.
C25_UserFiltersKept ==
    phase = "ready" =>
        \A i \in 1..Len(path) :
            LET label == path[i].label
                local == LocalFiltersOf(queryhelp, label)
            IN \A k \in DOMAIN local :
                  /\ k \in DOMAIN filters[label]
                  /\ \/ filters[label][k] = local[k]
                     \/ k \in DOMAIN TopFiltersOf(queryhelp.filters, label)

----------------------------------------------------------------------------
\* the errors the JOINS part of _build_query ends in
JoinErrors == {"NotImplementedError", "IndexError", "TypeError", "Exception"}

\* C26: every edge keyword the parser accepts on a vertex can be emitted: on a
\* builder the constructor made, get_query() never fails in the joins, and for
\* every vertex after the first, whatever key of the keyword map it carries
\* (slave_of and master_of included), a join is emitted.
C26_AcceptedEdgesEmitted ==
    (phase = "ready" /\ last.op = "get_query") =>
        /\ last.result \notin JoinErrors
        /\ last.result = "ok" => Len(Handle.joins) = Len(path) - 1

----------------------------------------------------------------------------
(***************************************************************************)
(* The attributes and extras of a backend entity,                          *)
(* aiida/orm/implementation/entities.py.  A dictionary is a function from  *)
(* the keys it holds to their values.                                      *)
(***************************************************************************)

\* the fields of the builder, which no method of an entity touches
selfvars == <<queryhelp, phase, path, label_list, alias_list, alias_dict, filters,
              projections, cls_to_label_map, limit, order_by, que,
              label_to_projected_entity_dict, last, rt, nchain>>

\* the names of the attributes and extras
Keys == {"a", "b"}

\* the values of the attributes and extras
Values == {1, 2}

\* the longest list of keys of one call
MaxKeys == 2

\* the dictionaries an entity holds
Dicts == UNION {[S -> Values] : S \in SUBSET Keys}

\* the lists of keys of a call, with and without repetitions
KeyLists == UNION {[1..n -> Keys] : n \in 0..MaxKeys}

\* d.pop(key): the dictionary without the key, KeyError when it is not there
Pop(d, key) ==
    IF key \in DOMAIN d
    THEN [d |-> [k \in DOMAIN d \ {key} |-> d[k]], err |-> "ok"]
    ELSE [d |-> d, err |-> "KeyError"]

\* for key in keys: d.pop(key), which ends at the first pop that raises
RECURSIVE PopAll(_, _)
PopAll(d, keys) ==
    IF keys = <<>>
    THEN [d |-> d, err |-> "ok"]
    ELSE LET Popped(r) == IF r.err # "ok" THEN r ELSE PopAll(r.d, Tail(keys))
         IN Popped(Pop(d, Head(keys)))

\* non_existing_keys = [key for key in keys if key not in d]
NonExistingKeys(d, keys) == SelectSeq(keys, LAMBDA key : key \notin DOMAIN d)

\* _flush_if_stored(fields): the flushes it does
FlushIfStored(stored, fields) == IF stored THEN <<fields>> ELSE <<>>

\* delete_attribute_many(keys) and delete_extra_many(keys) on the dictionary d
\* of the field
DeleteMany(d, keys, stored, field) ==
    IF NonExistingKeys(d, keys) # <<>>
    THEN [d |-> d, err |-> "AttributeError", flushed |-> <<>>]
    ELSE LET Popped(r) ==
                 [d |-> r.d, err |-> r.err,
                  flushed |-> IF r.err = "ok" THEN FlushIfStored(stored, {field}) ELSE <<>>]
         IN Popped(PopAll(d, keys))

ECalled(op, keys, r) == [op |-> op, keys |-> keys, err |-> r.err, flushed |-> r.flushed]

delete_attribute_many ==
    /\ \E keys \in KeyLists :
          LET Deleted(r) ==
                  /\ attributes' = r.d
                  /\ ecall' = ECalled("delete_attribute_many", keys, r)
          IN Deleted(DeleteMany(attributes, keys, is_stored, "attributes"))
    /\ UNCHANGED <<is_stored, extras>>
    /\ UNCHANGED selfvars
    /\ UNCHANGED groupvars

delete_extra_many ==
    /\ \E keys \in KeyLists :
          LET Deleted(r) ==
                  /\ extras' = r.d
                  /\ ecall' = ECalled("delete_extra_many", keys, r)
          IN Deleted(DeleteMany(extras, keys, is_stored, "extras"))
    /\ UNCHANGED <<is_stored, attributes>>
    /\ UNCHANGED selfvars
    /\ UNCHANGED groupvars

\* a builder nothing is called on
IdleSelf == queryhelp = QueryHelp(<<Labelled(LabelA)>>, <<>>, <<>>, None, NoOrderBy, FALSE) /\ InitSelf

\* an entity, stored or not, with any attributes and extras
InitEntities ==
    /\ IdleSelf
    /\ is_stored \in BOOLEAN
    /\ attributes \in Dicts
    /\ extras \in Dicts
    /\ ecall = NoCall
    /\ InitGroup

NextEntity == delete_attribute_many \/ delete_extra_many

SpecEntity == InitEntities /\ [][NextEntity]_vars

----------------------------------------------------------------------------
\* the dictionary d without the keys of the list
Without(d, keys) == [k \in DOMAIN d \ Range(keys) |-> d[k]]

\* what the claim says of a call that took the dictionary from d to e
AllOrNothing(d, e, call, field) ==
    IF \E i \in 1..Len(call.keys) : call.keys[i] \notin DOMAIN d
    THEN call.err = "AttributeError" /\ e = d /\ call.flushed = <<>>
    ELSE e = Without(d, call.keys) /\ call.flushed = FlushIfStored(is_stored, {field})

\* C28: batch deletes are all-or-nothing: delete_attribute_many(keys) and
\* delete_extra_many(keys) raise AttributeError when a key does not exist and
\* then remove nothing and do not flush; when all keys exist, exactly those
\* keys are removed and the entity is flushed once if it is stored.
C28_BatchDeleteAllOrNothing ==
    [][/\ ecall'.op = "delete_attribute_many" =>
              AllOrNothing(attributes, attributes', ecall', "attributes")
       /\ ecall'.op = "delete_extra_many" =>
              AllOrNothing(extras, extras', ecall', "extras")]_vars

\* the same of the calls whose list names no key twice
C28_DistinctKeys ==
    [][(\A i, j \in 1..Len(ecall'.keys) : i # j => ecall'.keys[i] # ecall'.keys[j]) =>
          /\ ecall'.op = "delete_attribute_many" =>
                 AllOrNothing(attributes, attributes', ecall', "attributes") /\ ecall'.err # "KeyError"
          /\ ecall'.op = "delete_extra_many" =>
                 AllOrNothing(extras, extras', ecall', "extras") /\ ecall'.err # "KeyError"]_vars

----------------------------------------------------------------------------
(***************************************************************************)
(* The collection of the groups, aiida/orm/groups.py, on the table dbgroup *)
(* of migration 0021.  A row of the table is its primary key, its label    *)
(* and its type_string.                                                    *)
(***************************************************************************)

\* the labels of the groups
GroupLabels == {"x", "y"}

\* the label a caller gives: a label of a group, or nothing
CallLabels == GroupLabels \cup {""}

\* Group, which has an entry point, and a sub class of it that has none
GroupClasses == {"Group", "SubGroup"}

\* GroupMeta.__new__: _type_string is the name of the entry point of the
\* class, None for a class without one
TypeString == [cls \in GroupClasses |-> IF cls = "Group" THEN Some("core") ELSE None]

\* the last primary key the table gives
MaxPk == 5

Row(pk, label, type_string) == [id |-> pk, label |-> label, type_string |-> type_string]

\* the rows of the groups stored before the first call
StoredBefore == {Row(1, "x", "core"), Row(2, "x", "auto.run"), Row(3, "y", "auto.run")}

\* the primary key of the first row stored after them
FirstPk == 4

\* unique_together = (label, type_string), and the primary key
UniqueTogether(rows) ==
    \A r1, r2 \in rows :
        (r1.id = r2.id \/ (r1.label = r2.label /\ r1.type_string = r2.type_string)) => r1 = r2

\* self.find(filters={'label': label})
Find(rows, label) == {r \in rows : r.label = label}

\* Group(label).store() of the class: refused without a type_string, and
\* refused by the table when the row breaks its constraint
Store(rows, pk, cls, label) ==
    IF TypeString[cls] = None
    THEN [rows |-> rows, err |-> "StoringNotAllowed", group |-> None]
    ELSE LET Inserted(row) ==
                 IF UniqueTogether(rows \cup {row})
                 THEN [rows |-> rows \cup {row}, err |-> "ok", group |-> Some(pk)]
                 ELSE [rows |-> rows, err |-> "IntegrityError", group |-> None]
         IN Inserted(Row(pk, label, TypeString[cls][1]))

\* get_or_create that stores a new group whatever the find gave
OnFoundAlwaysStore(rows, pk, cls, label, res) ==
    LET Stored(r) == [rows |-> r.rows, err |-> r.err, group |-> r.group,
                      created |-> r.err = "ok"]
    IN Stored(Store(rows, pk, cls, label))

\* get_or_create after the find: store and return a new group when res is
\* empty, raise when it has more than one group, else return the one it has
OnFound(rows, pk, cls, label, res) ==
    IF res = {}
    THEN LET Stored(r) == [rows |-> r.rows, err |-> r.err, group |-> r.group,
                           created |-> r.err = "ok"]
         IN Stored(Store(rows, pk, cls, label))
    ELSE IF Cardinality(res) > 1
    THEN [rows |-> rows, err |-> "MultipleObjectsError", group |-> None, created |-> FALSE]
    ELSE [rows |-> rows, err |-> "ok", group |-> Some((CHOOSE r \in res : TRUE).id),
          created |-> FALSE]

\* get_or_create(label) on the collection of the class
GetOrCreate(rows, pk, cls, label) ==
    IF label = ""
    THEN [rows |-> rows, err |-> "ValueError", group |-> None, created |-> FALSE]
    ELSE OnFound(rows, pk, cls, label, Find(rows, label))

GCalled(op, cls, label, r) ==
    [op |-> op, cls |-> cls, label |-> label, err |-> r.err, created |-> r.created,
     group |-> r.group]

\* the group of each label, with the one a call returned
Remember(label, r) ==
    IF r.err # "ok"
    THEN got
    ELSE [l \in DOMAIN got \cup {label} |-> IF l = label THEN r.group[1] ELSE got[l]]

\* cls.objects.get_or_create(label), by one caller at a time
get_or_create ==
    /\ nextpk <= MaxPk
    /\ \E cls \in GroupClasses, label \in CallLabels :
          LET Returns(r) ==
                  /\ dbgroup' = r.rows
                  /\ nextpk' = IF r.created THEN nextpk + 1 ELSE nextpk
                  /\ gcall' = GCalled("get_or_create", cls, label, r)
                  /\ got' = Remember(label, r)
          IN Returns(GetOrCreate(dbgroup, nextpk, cls, label))
    /\ UNCHANGED callers
    /\ UNCHANGED selfvars
    /\ UNCHANGED entityvars

\* Group.objects.delete(id) of a group of the table
delete ==
    /\ \E r \in dbgroup :
          /\ dbgroup' = dbgroup \ {r}
          /\ gcall' = [NoGroupCall EXCEPT !.op = "delete", !.label = r.label]
    /\ got' = NoDict
    /\ UNCHANGED <<nextpk, callers>>
    /\ UNCHANGED selfvars
    /\ UNCHANGED entityvars

\* the table with any of the groups stored before
InitGroups ==
    /\ IdleSelf
    /\ InitEntity
    /\ dbgroup \in SUBSET StoredBefore
    /\ nextpk = FirstPk
    /\ gcall = NoGroupCall
    /\ got = NoDict
    /\ callers = [c \in Callers |-> Outside]

NextGroup == get_or_create \/ delete

SpecGroup == InitGroups /\ [][NextGroup]_vars

\* get_or_create(label) of the caller c up to the find: the check of the
\* label and the read of the table
get_or_create_find(c) ==
    /\ callers[c].pc = "outside"
    /\ \E cls \in GroupClasses, label \in CallLabels :
          callers' = [callers EXCEPT ![c] =
              IF label = ""
              THEN [Outside EXCEPT !.pc = "returned", !.cls = cls, !.err = "ValueError"]
              ELSE [Outside EXCEPT !.pc = "found", !.cls = cls, !.label = label,
                                   !.res = Find(dbgroup, label)]]
    /\ UNCHANGED <<dbgroup, nextpk, gcall, got>>
    /\ UNCHANGED selfvars
    /\ UNCHANGED entityvars

\* get_or_create(label) of the caller c after the find, on the table as it is now
get_or_create_return(c) ==
    /\ callers[c].pc = "found"
    /\ LET Returns(r) ==
               /\ dbgroup' = r.rows
               /\ nextpk' = IF r.created THEN nextpk + 1 ELSE nextpk
               /\ callers' = [callers EXCEPT ![c] =
                      [@ EXCEPT !.pc = "returned", !.err = r.err, !.created = r.created,
                                !.group = r.group]]
       IN Returns(OnFound(dbgroup, nextpk, callers[c].cls, callers[c].label, callers[c].res))
    /\ UNCHANGED <<gcall, got>>
    /\ UNCHANGED selfvars
    /\ UNCHANGED entityvars

\* two callers on an empty table
InitRace == IdleSelf /\ InitEntity /\ InitGroup

NextRace == \E c \in Callers : get_or_create_find(c) \/ get_or_create_return(c)

SpecRace == InitRace /\ [][NextRace]_vars

----------------------------------------------------------------------------
\* the step is a call of get_or_create
GetOrCreateStep == gcall'.op = "get_or_create"

\* the call stored one new group of its label and returned it as created
StoredNew ==
    /\ gcall'.err = "ok"
    /\ gcall'.created
    /\ \E r \in dbgroup' \ dbgroup :
          /\ dbgroup' = dbgroup \cup {r}
          /\ r.label = gcall'.label
          /\ gcall'.group = Some(r.id)

\* a later call with the label of an earlier one returns the same group, not
\* created, and stores nothing; more than one match raises MultipleObjectsError
\* and an empty label ValueError, the table untouched
LaterCalls ==
    /\ gcall'.label \in DOMAIN got =>
           /\ gcall'.err = "ok"
           /\ ~gcall'.created
           /\ gcall'.group = Some(got[gcall'.label])
           /\ dbgroup' = dbgroup
    /\ Cardinality(Find(dbgroup, gcall'.label)) > 1 =>
           gcall'.err = "MultipleObjectsError" /\ dbgroup' = dbgroup
    /\ gcall'.label = "" =>
           gcall'.err = "ValueError" /\ dbgroup' = dbgroup

\* C29 as stated: get_or_create is idempotent in sequence: with no group of
\* the label present it stores a new group and returns (group, True), whatever
\* the class of the collection; every later call with the same label, with no
\* deletion in between, returns that group with created=False and stores
\* nothing; more than one match raises MultipleObjectsError and an empty label
\* raises ValueError without touching the store.
C29_IdempotentAsStated ==
    [][GetOrCreateStep =>
          /\ (gcall'.label # "" /\ Find(dbgroup, gcall'.label) = {}) => StoredNew
          /\ LaterCalls]_vars

\* C29: the same for the collection of a group class whose type_string is
\* set: with no group of the label present, get_or_create(label) stores a new
\* group and returns (group, True); every later call with the same label, with
\* no deletion in between, returns that group with created=False and stores
\* nothing; more than one match raises MultipleObjectsError and an empty label
\* raises ValueError without touching the store.
C29_Idempotent ==
    [][GetOrCreateStep =>
          /\ (/\ gcall'.label # ""
              /\ Find(dbgroup, gcall'.label) = {}
              /\ TypeString[gcall'.cls] # None) => StoredNew
          /\ LaterCalls]_vars

\* a call returned, as not created, the group an earlier call stored
C29_Witness ==
    /\ gcall.op = "get_or_create"
    /\ gcall.err = "ok"
    /\ ~gcall.created
    /\ gcall.group # None
    /\ gcall.group[1] >= FirstPk
    /\ gcall.label \in DOMAIN got

----------------------------------------------------------------------------
\* both callers called get_or_create with the label, on a collection whose
\* class can be stored, and both calls ended
BothReturned(label) ==
    \A c \in Callers :
        /\ callers[c].pc = "returned"
        /\ callers[c].label = label
        /\ TypeString[callers[c].cls] # None

\* C30: when two callers interleave get_or_create with the same label on an
\* initially empty store, (label, type_string) being unique, both calls return
\* the same group, exactly one of them reports created=True, and neither
\* raises.
C30_ConcurrentGetOrCreate ==
    \A label \in GroupLabels :
        BothReturned(label) =>
            /\ \A c \in Callers : callers[c].err = "ok"
            /\ \A c, d \in Callers : callers[c].group = callers[d].group
            /\ Cardinality({c \in Callers : callers[c].created}) = 1

\* the same of two calls of which one ended before the find of the other
C30_OneAfterTheOther ==
    \A label \in GroupLabels :
        (BothReturned(label) /\ \E c \in Callers : callers[c].res # {}) =>
            /\ \A c \in Callers : callers[c].err = "ok"
            /\ \A c, d \in Callers : callers[c].group = callers[d].group
            /\ Cardinality({c \in Callers : callers[c].created}) = 1

====
